---- MODULE Spec2Model ----
(***************************************************************************)
(* Analysis engine of the Baltimore 311 explorer (scripts/analyze.py):     *)
(* main() loads the request table, clusters it by location                 *)
(* (cluster_locations), builds the chronic hotspots                        *)
(* (identify_chronic_hotspots, with build_report_history and               *)
(* detect_failed_fixes), summarizes the neighborhoods                      *)
(* (neighborhood_summary), looks for reporting gaps in the Reddit posts    *)
(* (gap_analysis), computes the recurrence per category                    *)
(* (category_fix_rates) and writes the output document.                    *)
(*                                                                         *)
(* Timestamps are integers counted in ticks of half a day (TicksPerDay),   *)
(* so that Timedelta.days (a floor) differs from the exact difference.     *)
(* A latitude is an integer count of 1/METERS_PER_DEGREE_LAT degrees; all  *)
(* modelled points lie on one meridian, where the haversine distance is    *)
(* the latitude difference, and eps is CLUSTER_EPS_METERS of those units.  *)
(* Strings are sequences of one-character strings.                         *)
(***************************************************************************)
EXTENDS Integers, Sequences, FiniteSets, TLC

VARIABLES
    pc,              \* position in main(): "loaded", "clustered", "hotspots",
                     \* "neighborhoods", "gaps", "categories", "done";
                     \* "raised" after an uncaught exception; "call" and
                     \* "returned" around the call of a single function;
                     \* "fetching" inside the while loop of fetch_year
    df,              \* df_311: the sequence of request rows
    df_reddit,       \* load_data's df_reddit: whether the file exists, its rows
    now,             \* datetime.now() of the run
    cluster_id,      \* df_clustered['cluster_id']: one label per row of df
    sorted_reports,  \* build_report_history's sorted_reports, per cluster id
    hotspots,        \* hotspots_df / hotspots_list, in output order
    neighborhoods,   \* neighborhood_summary's summary: name -> record
    reddit_neighborhood_signals,  \* gap_analysis's tally: name -> count
    gaps,            \* the list gap_analysis returns
    cat_stats,       \* the list of (category, record) of category_fix_rates
    output,          \* summary_stats of the written document
    args,            \* arguments of a single function call; for fetch_year
                     \* the layer of the year on the server
    result           \* what that call returned; for fetch_year its locals
                     \* and the requests it has made so far

vars == <<pc, df, df_reddit, now, cluster_id, sorted_reports, hotspots,
          neighborhoods, reddit_neighborhood_signals, gaps, cat_stats,
          output, args, result>>

----------------------------------------------------------------------------
(* Program constants *)

CLUSTER_EPS_METERS == 75
MIN_CLUSTER_SAMPLES == 2
CHRONIC_MIN_REPORTS == 4
CHRONIC_MIN_DAYS_SPAN == 90
FAILED_FIX_WINDOW_DAYS == 120
HIGH_CHRONIC_THRESHOLD == 8
\* fetch_311.py: records asked for per request
PAGE_SIZE == 2000

\* label of a point that DBSCAN leaves in no cluster
NOISE == -1
\* pd.NaT: a missing timestamp (every real timestamp is >= 0)
NaT == -1
\* float nan, the value of NaT.days and of everything computed from it
NaN == -2
\* nan in a column of strings (no string has a character of three letters)
NaNStr == <<"nan">>
\* ticks per day: Timedelta.days is the floor of (ticks / TicksPerDay)
TicksPerDay == 2

----------------------------------------------------------------------------
(* Bounds of the model *)

MaxRows == 8
MaxWalkRows == 5
MaxPoints == 4
\* arguments of a single severity_score call
MaxReportCount == 12
MaxSpanDays == 239
\* words of a request type
MaxWords == 2
\* whole pages of records in the layer of a year
MaxPages == 2
\* rows and posts of the neighbourhood, gap and category inputs
MaxNeighborhoodRows == 5
MaxGapRows == 7
MaxPosts == 2
MaxScoreRows == 19
MaxScorePosts == 3
MaxCategoryRows == 8
\* rows and missing columns of the inputs with all columns
MaxRequestRows == 4
MaxMissing == 1

----------------------------------------------------------------------------
(* Strings *)

UpperAlphabet == <<"A","B","C","D","E","F","G","H","I","J","K","L","M",
                   "N","O","P","Q","R","S","T","U","V","W","X","Y","Z">>
LowerAlphabet == <<"a","b","c","d","e","f","g","h","i","j","k","l","m",
                   "n","o","p","q","r","s","t","u","v","w","x","y","z">>

\* the characters of a string literal
Chars(str) == [k \in 1..Len(str) |-> SubSeq(str, k, k)]

\* the modelled characters in code point order
CodePoints == Chars(" \"(),-/0123456789") \o UpperAlphabet
              \o Chars("[]") \o LowerAlphabet

\* ord(ch), up to the order
Ord(ch) == CHOOSE k \in DOMAIN CodePoints : CodePoints[k] = ch

\* a < b on strings
RECURSIVE StrLt(_, _)
StrLt(a, b) ==
    IF b = <<>> THEN FALSE
    ELSE IF a = <<>> THEN TRUE
    ELSE IF a[1] = b[1] THEN StrLt(Tail(a), Tail(b))
    ELSE Ord(a[1]) < Ord(b[1])

\* one character of str.lower()
LowerChar(ch) ==
    IF \E k \in DOMAIN UpperAlphabet : UpperAlphabet[k] = ch
    THEN LowerAlphabet[CHOOSE k \in DOMAIN UpperAlphabet : UpperAlphabet[k] = ch]
    ELSE ch

\* str.lower()
Lower(s) == [k \in DOMAIN s |-> LowerChar(s[k])]

\* sub in s
Contains(sub, s) ==
    \E k \in 0..(Len(s) - Len(sub)) :
        \A m \in 1..Len(sub) : s[k + m] = sub[m]

Str_closed == <<"c","l","o","s","e","d">>
Str_Closed == <<"C","l","o","s","e","d">>
Str_CLOSED == <<"C","L","O","S","E","D">>
Str_ClosedDuplicate == <<"C","l","o","s","e","d"," ","(","D","u","p","l","i","c","a","t","e",")">>
Str_Open == <<"O","p","e","n">>

----------------------------------------------------------------------------
(* Timestamps and floats with missing values *)

\* pd.notna on a timestamp
NotNa(t) == t # NaT

\* Timedelta.days of (a - b): floor of the difference in days, nan if either is NaT
DaysBetween(a, b) ==
    IF NotNa(a) /\ NotNa(b) THEN (a - b) \div TicksPerDay ELSE NaN

\* x < y on floats: False whenever nan is involved
FloatLt(x, y) == x # NaN /\ y # NaN /\ x < y

\* a > b on timestamps: False whenever NaT is involved
TsGt(a, b) == NotNa(a) /\ NotNa(b) /\ a > b

\* a <= b on timestamps
TsLe(a, b) == NotNa(a) /\ NotNa(b) /\ a <= b

\* ascending sequence of the elements of a finite set of integers
RECURSIVE SetToSeq(_)
SetToSeq(S) ==
    IF S = {} THEN <<>>
    ELSE LET m == CHOOSE x \in S : \A y \in S : x <= y
         IN <<m>> \o SetToSeq(S \ {m})

\* the sequence s without its k-th element
RemoveAt(s, k) == SubSeq(s, 1, k - 1) \o SubSeq(s, k + 1, Len(s))

----------------------------------------------------------------------------
(* cluster_locations: DBSCAN(eps, min_samples=2, metric='haversine') *)

\* great-circle distance of two rows on one meridian, in eps units
Haversine(a, b) ==
    IF a.latitude >= b.latitude THEN a.latitude - b.latitude
    ELSE b.latitude - a.latitude

\* radius_neighbors: the rows within eps of row i (row i included)
Neighborhood(X, i) ==
    { j \in DOMAIN X : Haversine(X[i], X[j]) <= CLUSTER_EPS_METERS }

\* IsCore with min_samples taken one too high
IsCore_ThreeSamples(X, i) ==
    Cardinality(Neighborhood(X, i)) >= MIN_CLUSTER_SAMPLES + 1

\* core_samples: at least min_samples rows in the neighborhood
IsCore(X, i) == Cardinality(Neighborhood(X, i)) >= MIN_CLUSTER_SAMPLES

\* Expand that labels a core point and its neighbours and goes no further
Expand_DirectOnly(X, labels, i, stack, label_num) ==
    [v \in DOMAIN labels |->
        IF v = i \/ (v \in Neighborhood(X, i) /\ labels[v] = NOISE)
        THEN label_num ELSE labels[v]]

\* the inner while-loop of dbscan_inner: label i, push the unlabelled
\* neighbours of a core point, continue with the top of the stack
RECURSIVE Expand(_, _, _, _, _)
Expand(X, labels, i, stack, label_num) ==
    LET fresh   == labels[i] = NOISE
        labels1 == IF fresh THEN [labels EXCEPT ![i] = label_num] ELSE labels
        pushed  == IF fresh /\ IsCore(X, i)
                   THEN SetToSeq({v \in Neighborhood(X, i) : labels1[v] = NOISE})
                   ELSE <<>>
        stack1  == stack \o pushed
    IN  IF stack1 = <<>> THEN labels1
        ELSE Expand(X, labels1, stack1[Len(stack1)],
                    SubSeq(stack1, 1, Len(stack1) - 1), label_num)

\* the outer loop of dbscan_inner over the rows in input order
RECURSIVE DbscanInner(_, _, _, _)
DbscanInner(X, labels, i, label_num) ==
    IF i > Len(X) THEN labels
    ELSE IF labels[i] # NOISE \/ ~IsCore(X, i)
         THEN DbscanInner(X, labels, i + 1, label_num)
         ELSE DbscanInner(X, Expand(X, labels, i, <<>>, label_num),
                          i + 1, label_num + 1)

\* db.labels_
cluster_locations(d) == DbscanInner(d, [i \in DOMAIN d |-> NOISE], 1, 0)

----------------------------------------------------------------------------
(* build_report_history and detect_failed_fixes *)

\* row.get(col, default)
Get(row, col, default) == IF col \in DOMAIN row THEN row[col] ELSE default

\* one Row of the table
Row(lat, created, status, status_date) ==
    [latitude |-> lat, createddate |-> created,
     srstatus |-> status, statusdate |-> status_date]

\* sort_values with na_position='first': the undated rows ahead of the rest
RECURSIVE sort_values_NaTFirst(_)
sort_values_NaTFirst(group) ==
    IF group = <<>> THEN {<<>>}
    ELSE LET first(i) ==
                 \A j \in DOMAIN group :
                     \/ ~NotNa(group[i].createddate)
                     \/ /\ NotNa(group[j].createddate)
                        /\ group[i].createddate <= group[j].createddate
             mins == {i \in DOMAIN group : first(i)}
             reps == {i \in mins : \A j \in mins : j < i => group[j] # group[i]}
         IN UNION { { <<group[i]>> \o w :
                        w \in sort_values_NaTFirst(RemoveAt(group, i)) }
                    : i \in reps }

\* the outcomes of group.sort_values('createddate'): ascending, NaT last;
\* the order of rows with equal createddate is not fixed by the (unstable)
\* default sort, so every order of distinct tied rows is an outcome
RECURSIVE sort_values(_)
sort_values(group) ==
    IF group = <<>> THEN {<<>>}
    ELSE LET first(i) ==
                 \A j \in DOMAIN group :
                     \/ ~NotNa(group[j].createddate)
                     \/ /\ NotNa(group[i].createddate)
                        /\ group[i].createddate <= group[j].createddate
             mins == {i \in DOMAIN group : first(i)}
             reps == {i \in mins : \A j \in mins : j < i => group[j] # group[i]}
         IN UNION { { <<group[i]>> \o w : w \in sort_values(RemoveAt(group, i)) }
                    : i \in reps }

\* TracksClosure without the test for a missing status-change timestamp
TracksClosure_IgnoresMissingDate(row) ==
    Contains(Str_closed, Lower(Get(row, "srstatus", <<>>)))

\* the closure test of build_report_history's walk
TracksClosure(row) ==
    /\ Contains(Str_closed, Lower(Get(row, "srstatus", <<>>)))
    /\ NotNa(row.statusdate)

\* the re-report test of build_report_history for one row
IsRereport(created, last_closure_date) ==
    /\ last_closure_date # NaT
    /\ NotNa(created)
    /\ LET days_since_closure == DaysBetween(created, last_closure_date)
       IN  0 < days_since_closure /\ days_since_closure <= FAILED_FIX_WINDOW_DAYS

\* the history entry appended for one row (date is the calendar day)
HistoryEntry(row, last_closure_date) ==
    [date        |-> IF NotNa(row.createddate)
                     THEN row.createddate \div TicksPerDay ELSE NaT,
     status      |-> Get(row, "srstatus", <<>>),
     is_rereport |-> IsRereport(row.createddate, last_closure_date)]

\* HistoryFrom with the closure of a row recorded before its entry is built
RECURSIVE HistoryFrom_RecordsFirst(_, _, _)
HistoryFrom_RecordsFirst(sorted, k, last_closure_date) ==
    IF k > Len(sorted) THEN <<>>
    ELSE LET recorded == IF TracksClosure(sorted[k]) THEN sorted[k].statusdate
                         ELSE last_closure_date
         IN  <<HistoryEntry(sorted[k], recorded)>>
             \o HistoryFrom_RecordsFirst(sorted, k + 1, recorded)

\* the for-loop of build_report_history from row k on, with the tracked
\* closure (NaT stands for None: no closure tracked)
RECURSIVE HistoryFrom(_, _, _)
HistoryFrom(sorted, k, last_closure_date) ==
    IF k > Len(sorted) THEN <<>>
    ELSE <<HistoryEntry(sorted[k], last_closure_date)>>
         \o HistoryFrom(sorted, k + 1,
                        IF TracksClosure(sorted[k]) THEN sorted[k].statusdate
                        ELSE last_closure_date)

\* last_closure_date when the for-loop reaches row k, and after the loop
\* for k = Len(sorted) + 1 (NaT stands for None)
RECURSIVE LastClosureDate(_, _)
LastClosureDate(sorted, k) ==
    IF k = 1 THEN NaT
    ELSE IF TracksClosure(sorted[k - 1]) THEN sorted[k - 1].statusdate
    ELSE LastClosureDate(sorted, k - 1)

\* build_report_history on one outcome of its sort
build_report_history(sorted) == HistoryFrom(sorted, 1, NaT)

\* the rows detect_failed_fixes counts as closures
IsCountedClosure(row) == row.srstatus = Str_Closed /\ NotNa(row.statusdate)

\* 'col' in df.columns, for a table with at least one row
HasColumn(d, col) == col \in DOMAIN d[1]

\* detect_failed_fixes: closures with a report created in the window after;
\* 0 for a table without the status column
detect_failed_fixes(group) ==
    IF ~HasColumn(group, "srstatus") THEN 0
    ELSE Cardinality({ i \in DOMAIN group :
        /\ IsCountedClosure(group[i])
        /\ \E j \in DOMAIN group :
               /\ TsGt(group[j].createddate, group[i].statusdate)
               /\ TsLe(group[j].createddate,
                       group[i].statusdate + FAILED_FIX_WINDOW_DAYS * TicksPerDay) })

----------------------------------------------------------------------------
(* identify_chronic_hotspots *)

\* round(ln(span_days / 30) * 10^6) for span_days = 31 .. 240
LnMicroTable == <<
     32790, 64539, 95310, 125163, 154151, 182322, 209721, 236389, 262364, 287682,
     312375, 336472, 360003, 382992, 405465, 427444, 448950, 470004, 490623, 510826,
     530628, 550046, 569095, 587787, 606136, 624154, 641854, 659246, 676340, 693147,
     709676, 725937, 741937, 757686, 773190, 788457, 803495, 818310, 832909, 847298,
     861482, 875469, 889262, 902868, 916291, 929536, 942608, 955511, 968250, 980829,
     993252, 1005522, 1017643, 1029619, 1041454, 1053150, 1064711, 1076139, 1087439, 1098612,
     1109662, 1120591, 1131402, 1142097, 1152680, 1163151, 1173514, 1183770, 1193922, 1203973,
     1213923, 1223775, 1233532, 1243194, 1252763, 1262242, 1271631, 1280934, 1290151, 1299283,
     1308333, 1317301, 1326190, 1335001, 1343735, 1352393, 1360977, 1369487, 1377926, 1386294,
     1394593, 1402824, 1410987, 1419084, 1427116, 1435085, 1442990, 1450833, 1458615, 1466337,
     1474000, 1481605, 1489152, 1496642, 1504077, 1511458, 1518784, 1526056, 1533277, 1540445,
     1547563, 1554630, 1561647, 1568616, 1575536, 1582409, 1589235, 1596015, 1602749, 1609438,
     1616082, 1622683, 1629241, 1635755, 1642228, 1648659, 1655048, 1661398, 1667707, 1673976,
     1680207, 1686399, 1692553, 1698669, 1704748, 1710790, 1716796, 1722767, 1728701, 1734601,
     1740466, 1746297, 1752094, 1757858, 1763589, 1769287, 1774952, 1780586, 1786188, 1791759,
     1797300, 1802809, 1808289, 1813738, 1819158, 1824549, 1829911, 1835245, 1840550, 1845827,
     1851076, 1856298, 1861493, 1866661, 1871802, 1876917, 1882006, 1887070, 1892107, 1897120,
     1902108, 1907070, 1912009, 1916923, 1921813, 1926679, 1931521, 1936341, 1941137, 1945910,
     1950661, 1955389, 1960095, 1964779, 1969441, 1974081, 1978700, 1983298, 1987874, 1992430,
     1996965, 2001480, 2005974, 2010449, 2014903, 2019338, 2023753, 2028148, 2032525, 2036882,
     2041220, 2045540, 2049841, 2054124, 2058388, 2062634, 2066863, 2071073, 2075266, 2079442 >>

\* ln(max(span_days / 30, 1)) in millionths
LnMonthsMicro(span_days) ==
    IF span_days <= 30 THEN 0 ELSE LnMicroTable[span_days - 30]

\* severity_score without the 1 added to the logarithm
severity_score_LogOnly(report_count, span_days) ==
    IF span_days = NaN THEN NaN
    ELSE (report_count * LnMonthsMicro(span_days) + 50000) \div 100000

\* round(report_count * (1 + ln(months_span)), 1), in tenths; nan for a nan span
severity_score(report_count, span_days) ==
    IF span_days = NaN THEN NaN
    ELSE (report_count * (1000000 + LnMonthsMicro(span_days)) + 50000) \div 100000

\* the cluster ids of clustered.groupby('cluster_id'), ascending
ClusterIds(labels) == SetToSeq({labels[i] : i \in DOMAIN labels} \ {NOISE})

\* the rows of one cluster, in table order
Group(d, labels, c) ==
    LET idx == SetToSeq({i \in DOMAIN d : labels[i] = c})
    IN  [k \in DOMAIN idx |-> d[idx[k]]]

\* Series.min() / Series.max() of createddate: NaT is skipped, NaT if all are
MinCreated(group) ==
    LET ts == {group[i].createddate : i \in DOMAIN group} \ {NaT}
    IN  IF ts = {} THEN NaT ELSE CHOOSE t \in ts : \A u \in ts : t <= u

MaxCreated(group) ==
    LET ts == {group[i].createddate : i \in DOMAIN group} \ {NaT}
    IN  IF ts = {} THEN NaT ELSE CHOOSE t \in ts : \A u \in ts : t >= u

\* the test that keeps a cluster (the negation of the loop's `continue`)
IsChronic(report_count, span_days) ==
    ~(report_count < CHRONIC_MIN_REPORTS \/ FloatLt(span_days, CHRONIC_MIN_DAYS_SPAN))

\* IsHighPriority with a strict report threshold
IsHighPriority_StrictThreshold(report_count, possible_failed_fixes) ==
    report_count > HIGH_CHRONIC_THRESHOLD \/ possible_failed_fixes >= 2

\* the is_high_priority expression
IsHighPriority(report_count, possible_failed_fixes) ==
    report_count >= HIGH_CHRONIC_THRESHOLD \/ possible_failed_fixes >= 2

\* len(series[series == v])
ValueCount(series, v) == Cardinality({k \in DOMAIN series : series[k] = v})

\* series.mode().iloc[0]: the most frequent value, the smallest of them on a tie
Mode(series) ==
    LET values == {series[k] : k \in DOMAIN series}
        modes  == {v \in values :
                     \A w \in values : ValueCount(series, v) >= ValueCount(series, w)}
    IN  CHOOSE v \in modes : \A w \in modes : w = v \/ StrLt(v, w)

\* primary_type: the most common service type of the cluster
PrimaryType(group) ==
    IF HasColumn(group, "srtype")
    THEN Mode([k \in DOMAIN group |-> group[k].srtype])
    ELSE Chars("Unknown")

\* Python's None, and a value that is present
None == <<>>
Some(x) == <<x>>

\* group[col].dropna().mode().iloc[0] if there is such a column and value
ModeOfPresent(group, col) ==
    LET present == IF HasColumn(group, col)
                   THEN SelectSeq([k \in DOMAIN group |-> group[k][col]],
                                  LAMBDA v : v # NaNStr)
                   ELSE <<>>
    IN  IF present = <<>> THEN None ELSE Some(Mode(present))

\* series.median() in tenths: nan is skipped, nan when nothing is left;
\* the middle value, or the mean of the two middle values
Median(series) ==
    LET values == SelectSeq(series, LAMBDA v : v # NaN)
        n      == Len(values)
        KthSmallest(k) ==
            CHOOSE m \in {values[i] : i \in DOMAIN values} :
                /\ Cardinality({i \in DOMAIN values : values[i] < m}) < k
                /\ k <= Cardinality({i \in DOMAIN values : values[i] <= m})
    IN  IF n = 0 THEN NaN
        ELSE IF n % 2 = 1 THEN 10 * KthSmallest((n + 1) \div 2)
        ELSE 5 * (KthSmallest(n \div 2) + KthSmallest(n \div 2 + 1))

\* ClosedTimes without the selection of the closed rows
ClosedTimes_AllRows(group) ==
    [k \in DOMAIN group |-> group[k].resolution_days]

\* group[group['srstatus'] == 'Closed']['resolution_days']
ClosedTimes(group) ==
    LET closed == SelectSeq(group, LAMBDA row : row.srstatus = Str_Closed)
    IN  [k \in DOMAIN closed |-> closed[k].resolution_days]

\* avg_resolution_days as computed: None, or the median over the closed rows
MedianResolution(group) ==
    IF SelectSeq(group, LAMBDA row : row.srstatus = Str_Closed) # <<>>
       /\ HasColumn(group, "resolution_days")
    THEN Some(Median(ClosedTimes(group)))
    ELSE None

\* float(avg_resolution_days) if avg_resolution_days else None: None and 0.0
\* are falsy, nan is truthy
FloatIfTruthy(avg_resolution_days) ==
    IF avg_resolution_days = None \/ avg_resolution_days = Some(0) THEN None
    ELSE avg_resolution_days

\* the dict appended for a kept cluster, for one outcome of the history's sort
Hotspot(c, group, sorted) ==
    LET report_count == Len(group)
        first_report == MinCreated(group)
        last_report  == MaxCreated(group)
        span_days    == DaysBetween(last_report, first_report)
        possible_failed_fixes == detect_failed_fixes(group)
        nbhd_mode    == ModeOfPresent(group, "neighborhood")
        \* group['srstatus'].value_counts().to_dict(), {} without the column
        status_counts ==
            IF HasColumn(group, "srstatus")
            THEN [v \in {group[k].srstatus : k \in DOMAIN group} \ {NaNStr} |->
                     ValueCount([k \in DOMAIN group |-> group[k].srstatus], v)]
            ELSE <<>>
    IN  [cluster_id            |-> c,
         primary_type          |-> PrimaryType(group),
         neighborhood          |-> IF nbhd_mode = None THEN Chars("Unknown")
                                   ELSE nbhd_mode[1],
         status_breakdown      |-> status_counts,
         avg_resolution_days   |-> FloatIfTruthy(MedianResolution(group)),
         address_hint          |-> ModeOfPresent(group, "street"),
         report_count          |-> report_count,
         first_report          |-> first_report,
         last_report           |-> last_report,
         span_days             |-> span_days,
         severity_score        |-> severity_score(report_count, span_days),
         possible_failed_fixes |-> possible_failed_fixes,
         is_high_priority      |-> IsHighPriority(report_count, possible_failed_fixes),
         history               |-> build_report_history(sorted)]

\* the groupby loop over the cluster ids ids[k..]: every outcome is the list
\* of kept clusters, each with its hotspot h and the sorted rows w behind it
RECURSIVE HotspotLoop(_, _, _, _)
HotspotLoop(d, labels, ids, k) ==
    IF k > Len(ids) THEN {<<>>}
    ELSE LET group == Group(d, labels, ids[k])
             rest  == HotspotLoop(d, labels, ids, k + 1)
         IN  IF IsChronic(Len(group),
                          DaysBetween(MaxCreated(group), MinCreated(group)))
             THEN { <<[h |-> Hotspot(ids[k], group, w), w |-> w]>> \o r :
                        w \in sort_values(group), r \in rest }
             ELSE rest

\* whether identify_chronic_hotspots raises: group['srstatus'] is a KeyError
\* on a table without the column, reached for the first cluster the loop keeps
IdentifyRaises(d, labels) ==
    /\ ~HasColumn(d, "srstatus")
    /\ \E c \in {labels[i] : i \in DOMAIN labels} \ {NOISE} :
           IsChronic(Len(Group(d, labels, c)),
                     DaysBetween(MaxCreated(Group(d, labels, c)),
                                 MinCreated(Group(d, labels, c))))

\* a then b is a possible adjacent pair after
\* sort_values('severity_score', ascending=False): nan goes last
ScoreOrdered(a, b) == b = NaN \/ (a # NaN /\ a >= b)

\* the outcomes of hotspots_df.sort_values('severity_score', ascending=False)
SortBySeverity(list) ==
    LET n     == Len(list)
        perms == {p \in [1..n -> 1..n] : \A i, j \in 1..n : i # j => p[i] # p[j]}
    IN  { [k \in 1..n |-> list[p[k]]] :
            p \in {q \in perms :
                     \A k \in 1..(n - 1) :
                         ScoreOrdered(list[q[k]].h.severity_score,
                                      list[q[k + 1]].h.severity_score)} }

----------------------------------------------------------------------------
(* Rounded quotients *)

\* round(num / den) for den > 0: the nearest integer, a tie going to the
\* even one (the quotients of the model have no ties other than exact ones)
RoundHalfEven(num, den) ==
    LET q == (2 * num + den) \div (2 * den)
    IN  IF (2 * num + den) % (2 * den) = 0 /\ q % 2 = 1 THEN q - 1 ELSE q

\* round(num / den * 100, 1), in tenths of a percent
Pct1(num, den) == RoundHalfEven(num * 1000, den)

----------------------------------------------------------------------------
(* neighborhood_summary *)

\* a request row with the columns neighborhood and srtype as well
FullRow(lat, created, status, status_date, neighborhood, srtype) ==
    [latitude |-> lat, createddate |-> created,
     srstatus |-> status, statusdate |-> status_date,
     neighborhood |-> neighborhood, srtype |-> srtype]

\* datetime.now() - timedelta(days=days)
Cutoff(t, days) == t - days * TicksPerDay

\* a >= b on timestamps: False whenever NaT is involved
TsGe(a, b) == NotNa(a) /\ NotNa(b) /\ a >= b

\* a < b on timestamps
TsLt(a, b) == NotNa(a) /\ NotNa(b) /\ a < b

\* recent: len(group[group['createddate'] >= recent_cutoff])
Recent(group, t) ==
    Cardinality({k \in DOMAIN group : TsGe(group[k].createddate, Cutoff(t, 90))})

\* prior: the rows from prior_cutoff on and before recent_cutoff
Prior(group, t) ==
    Cardinality({k \in DOMAIN group :
        /\ TsGe(group[k].createddate, Cutoff(t, 180))
        /\ TsLt(group[k].createddate, Cutoff(t, 90))})

\* Trend with the branches for prior == 0 swapped
Trend_NullWhenGrowingFromZero(recent, prior) ==
    IF prior > 0 THEN Some(Pct1(recent - prior, prior))
    ELSE IF recent > 0 THEN None
    ELSE Some(1000)

\* trend: None, or the rounded percentage in tenths
Trend(recent, prior) ==
    IF prior > 0 THEN Some(Pct1(recent - prior, prior))
    ELSE IF recent > 0 THEN Some(1000)
    ELSE None

\* the rows of one key of df.groupby('neighborhood')
NeighborhoodGroup(d, name) ==
    LET idx == SetToSeq({k \in DOMAIN d : d[k].neighborhood = name})
    IN  [k \in DOMAIN idx |-> d[idx[k]]]

\* the keys the loop of neighborhood_summary does not skip: groupby leaves
\* out nan, the loop the empty name
SummaryKeys(d) == {d[k].neighborhood : k \in DOMAIN d} \ {<<>>, NaNStr}

\* resolution_rate: None without the status column
ResolutionRate(group) ==
    IF HasColumn(group, "srstatus")
    THEN Some(Pct1(ValueCount([k \in DOMAIN group |-> group[k].srstatus],
                              Str_Closed),
                   Len(group)))
    ELSE None

\* avg_res_days: None, or round(closed_times.median(), 1) in tenths
AvgResDays(group) ==
    IF HasColumn(group, "resolution_days") /\ ClosedTimes(group) # <<>>
    THEN Some(Median(ClosedTimes(group)))
    ELSE None

\* whether neighborhood_summary raises: with a resolution_days column,
\* group['srstatus'] is a KeyError on a table without the status column
SummaryRaises(d) ==
    /\ HasColumn(d, "neighborhood")
    /\ SummaryKeys(d) # {}
    /\ HasColumn(d, "resolution_days")
    /\ ~HasColumn(d, "srstatus")

\* neighborhood_summary(df) run at time t: the dict keyed by neighborhood
neighborhood_summary(d, t) ==
    IF ~HasColumn(d, "neighborhood") THEN <<>>
    ELSE [name \in SummaryKeys(d) |->
            LET group  == NeighborhoodGroup(d, name)
                recent == Recent(group, t)
                prior  == Prior(group, t)
            IN  [total_reports       |-> Len(group),
                 resolution_rate     |-> ResolutionRate(group),
                 avg_resolution_days |-> AvgResDays(group),
                 recent_90_days      |-> recent,
                 prior_90_days       |-> prior,
                 trend_pct           |-> Trend(recent, prior)]]

----------------------------------------------------------------------------
(* json.loads, on the texts of the model: a scalar or a flat array of      *)
(* scalars, without escapes, fractions or signs                            *)

Quote == "\""

\* the Python values json.loads returns here, and float nan (a missing cell)
PyStr(s) == [type |-> "str", value |-> s]
PyInt == [type |-> "int"]
PyBool == [type |-> "bool"]
PyNone == [type |-> "NoneType"]
PyList(items) == [type |-> "list", value |-> items]
PyNaN == [type |-> "float"]

\* the text without the spaces around it
RECURSIVE Trim(_)
Trim(s) ==
    IF s # <<>> /\ s[1] = " " THEN Trim(Tail(s))
    ELSE IF s # <<>> /\ s[Len(s)] = " " THEN Trim(SubSeq(s, 1, Len(s) - 1))
    ELSE s

IsStringLiteral(s) ==
    /\ Len(s) >= 2
    /\ s[1] = Quote
    /\ s[Len(s)] = Quote
    /\ \A k \in 2..(Len(s) - 1) : s[k] # Quote

IsIntLiteral(s) ==
    /\ s # <<>>
    /\ \A k \in DOMAIN s : s[k] \in {"0","1","2","3","4","5","6","7","8","9"}
    /\ Len(s) > 1 => s[1] # "0"

\* the value of a scalar text, None for a text that is no JSON scalar
ParseScalar(s) ==
    IF IsStringLiteral(s) THEN Some(PyStr(SubSeq(s, 2, Len(s) - 1)))
    ELSE IF IsIntLiteral(s) THEN Some(PyInt)
    ELSE IF s = Chars("null") THEN Some(PyNone)
    ELSE IF s \in {Chars("true"), Chars("false")} THEN Some(PyBool)
    ELSE None

\* the pieces of s[start..] between the commas outside string literals
RECURSIVE SplitItems(_, _, _, _)
SplitItems(s, start, k, quoted) ==
    IF k > Len(s) THEN <<SubSeq(s, start, Len(s))>>
    ELSE IF s[k] = Quote THEN SplitItems(s, start, k + 1, ~quoted)
    ELSE IF s[k] = "," /\ ~quoted
         THEN <<SubSeq(s, start, k - 1)>> \o SplitItems(s, k + 1, k + 1, FALSE)
    ELSE SplitItems(s, start, k + 1, quoted)

\* json.loads(text): Some(value), or None when it raises JSONDecodeError
json_loads(text) ==
    LET s == Trim(text)
    IN  IF Len(s) >= 2 /\ s[1] = "[" /\ s[Len(s)] = "]"
        THEN LET inner  == Trim(SubSeq(s, 2, Len(s) - 1))
                 items  == SplitItems(inner, 1, 1, FALSE)
                 parsed == [k \in DOMAIN items |-> ParseScalar(Trim(items[k]))]
             IN  IF inner = <<>> THEN Some(PyList(<<>>))
                 ELSE IF \E k \in DOMAIN parsed : parsed[k] = None THEN None
                 ELSE Some(PyList([k \in DOMAIN parsed |-> parsed[k][1]]))
        ELSE ParseScalar(s)

----------------------------------------------------------------------------
(* gap_analysis *)

Max(a, b) == IF a >= b THEN a ELSE b

\* a Reddit post with its location_hints cell
Post(cell) == [location_hints |-> cell]

\* hints_raw = row.get('location_hints', '[]')
HintsRaw(row) ==
    IF "location_hints" \in DOMAIN row THEN row.location_hints
    ELSE PyStr(Chars("[]"))

\* hints: json.loads(hints_raw) for a str, [] for anything else and for a
\* text json.loads rejects
Hints(row) ==
    LET hints_raw == HintsRaw(row)
    IN  IF hints_raw.type = "str"
        THEN LET loaded == json_loads(hints_raw.value)
             IN  IF loaded = None THEN PyList(<<>>) ELSE loaded[1]
        ELSE PyList(<<>>)

\* `for hint in hints: hint_lower = hint.lower()` raises TypeError on a
\* value that cannot be iterated and AttributeError on an item without lower()
IterationRaises(hints) ==
    \/ hints.type \in {"int", "bool", "NoneType"}
    \/ /\ hints.type = "list"
       /\ \E k \in DOMAIN hints.value : hints.value[k].type # "str"

\* the strings the for loop binds to hint: the items of a list, the
\* characters of a str
IteratedHints(hints) ==
    IF hints.type = "list"
    THEN [k \in DOMAIN hints.value |-> hints.value[k].value]
    ELSE [k \in DOMAIN hints.value |-> <<hints.value[k]>>]

\* neighborhood.lower() in hint_lower or hint_lower in neighborhood.lower()
Matches(neighborhood, hint) ==
    LET hint_lower == Lower(hint)
    IN  \/ Contains(Lower(neighborhood), hint_lower)
        \/ Contains(hint_lower, Lower(neighborhood))

\* report_counts: df_311['neighborhood'].value_counts().to_dict()
report_counts(d) ==
    IF HasColumn(d, "neighborhood")
    THEN [name \in {d[k].neighborhood : k \in DOMAIN d} \ {NaNStr} |->
            Cardinality({k \in DOMAIN d : d[k].neighborhood = name})]
    ELSE <<>>

\* reddit_neighborhood_signals after the loop over the posts, with 0 for the
\* neighborhoods the dict has no key for
Signals(counts, posts) ==
    [name \in DOMAIN counts |->
        Cardinality(UNION {
            { <<p, h>> : h \in {m \in DOMAIN IteratedHints(Hints(posts[p])) :
                                  Matches(name, IteratedHints(Hints(posts[p]))[m])} }
            : p \in DOMAIN posts })]

\* sum(report_counts.values()) over the keys in names
RECURSIVE SumOver(_, _)
SumOver(counts, names) ==
    IF names = {} THEN 0
    ELSE LET name == CHOOSE x \in names : TRUE
         IN  counts[name] + SumOver(counts, names \ {name})

\* IsGap with the 311 count allowed to reach half of the mean
IsGap_UpToHalfMean(reddit_count, balt_311_count, total, n) ==
    /\ ~(reddit_count < 2)
    /\ 2 * n * balt_311_count <= total

\* the test for a gap: at least 2 signals and balt_311_count below
\* avg_311_reports * 0.5, where avg_311_reports is total / n
IsGap(reddit_count, balt_311_count, total, n) ==
    /\ ~(reddit_count < 2)
    /\ 2 * n * balt_311_count < total

\* GapScore cut off after two decimals
GapScore_Truncated(reddit_count, balt_311_count) ==
    (reddit_count * 100) \div Max(balt_311_count, 1)

\* round(reddit_count / max(balt_311_count, 1), 2), in hundredths
GapScore(reddit_count, balt_311_count) ==
    RoundHalfEven(reddit_count * 100, Max(balt_311_count, 1))

\* the dict appended for a gap
GapRecord(name, reddit_count, balt_311_count) ==
    [neighborhood     |-> name,
     reddit_signal    |-> reddit_count,
     balt_311_reports |-> balt_311_count,
     gap_score        |-> GapScore(reddit_count, balt_311_count)]

\* the outcomes of gaps.sort(key=gap_score, reverse=True) for the records
\* of a set: the order of equal scores follows the order of the dicts
\* behind the list, which is not modelled, so each order is an outcome
SortByGapScore(records) ==
    { s \in [1..Cardinality(records) -> records] :
        /\ \A i, j \in DOMAIN s : i # j => s[i] # s[j]
        /\ \A k \in 1..(Len(s) - 1) : s[k].gap_score >= s[k + 1].gap_score }

\* the records gap_analysis appends, before the sort
GapRecords(counts, signals) ==
    LET total == SumOver(counts, DOMAIN counts)
        n     == Cardinality(DOMAIN counts)
    IN  { GapRecord(name, signals[name], counts[name]) :
            name \in {x \in DOMAIN counts :
                        IsGap(signals[x], counts[x], total, n)} }

\* NoPosts without the test for None
NoPosts_EmptyFileOnly(reddit) == reddit.exists /\ reddit.rows = <<>>

\* df_reddit is None or df_reddit.empty
NoPosts(reddit) == ~reddit.exists \/ reddit.rows = <<>>

\* whether gap_analysis raises: past the guard, None has no iterrows(), and
\* the hints of some post cannot be iterated
GapAnalysisRaises(reddit) ==
    /\ ~NoPosts(reddit)
    /\ \/ ~reddit.exists
       \/ \E p \in DOMAIN reddit.rows : IterationRaises(Hints(reddit.rows[p]))

----------------------------------------------------------------------------
(* category_fix_rates *)

\* categorize_type with the Street / Curb rule ahead of the Street Light rule
categorize_type_StreetFirst(srtype) ==
    LET t == Lower(srtype)
        has(word) == Contains(Chars(word), t)
    IN  IF srtype = <<>> THEN Chars("Other")
        ELSE IF has("pothole") THEN Chars("Pothole")
        ELSE IF has("curb") \/ has("bridge") \/ has("street")
             THEN Chars("Street / Curb")
        ELSE IF has("light") \/ has("streetlight") THEN Chars("Street Light")
        ELSE IF has("alley") THEN Chars("Alley")
        ELSE IF has("sidewalk") THEN Chars("Sidewalk")
        ELSE IF has("water") \/ has("main") THEN Chars("Water Main")
        ELSE IF has("cave") \/ has("sinkhole") THEN Chars("Cave-In / Sinkhole")
        ELSE IF has("storm") \/ has("drain") \/ has("catch")
             THEN Chars("Storm Drain")
        ELSE Chars("Other")

\* categorize_type(srtype), the function nested in category_fix_rates
categorize_type(srtype) ==
    LET t == Lower(srtype)
        has(word) == Contains(Chars(word), t)
    IN  IF srtype = <<>> THEN Chars("Other")
        ELSE IF has("pothole") THEN Chars("Pothole")
        ELSE IF has("light") \/ has("streetlight") THEN Chars("Street Light")
        ELSE IF has("alley") THEN Chars("Alley")
        ELSE IF has("sidewalk") THEN Chars("Sidewalk")
        ELSE IF has("water") \/ has("main") THEN Chars("Water Main")
        ELSE IF has("cave") \/ has("sinkhole") THEN Chars("Cave-In / Sinkhole")
        ELSE IF has("storm") \/ has("drain") \/ has("catch")
             THEN Chars("Storm Drain")
        ELSE IF has("curb") \/ has("bridge") \/ has("street")
             THEN Chars("Street / Curb")
        ELSE Chars("Other")

\* the hotspots the loop does not skip for category cat
HotspotsOfCategory(list, cat) ==
    {k \in DOMAIN list : ~(categorize_type(list[k].primary_type) # cat)}

\* the (hotspot, history entry) pairs that are re-reports: cat_rereports
\* counts them, sum(1 for r in history if r.get('is_rereport')) per hotspot
RereportEntries(list, ks) ==
    UNION { { <<k, m>> : m \in {x \in DOMAIN list[k].history :
                                  list[k].history[x].is_rereport} }
            : k \in ks }

\* all (hotspot, history entry) pairs: cat_cluster_reports counts them
HistoryEntries(list, ks) ==
    UNION { { <<k, m>> : m \in DOMAIN list[k].history } : k \in ks }

\* CategoryStats with the re-reports of every hotspot, whatever its type
CategoryStats_AllHotspots(d, list, cat) ==
    LET total == Cardinality({k \in DOMAIN d : categorize_type(d[k].srtype) = cat})
        ks    == HotspotsOfCategory(list, cat)
        cat_rereports       == Cardinality(RereportEntries(list, DOMAIN list))
        cat_cluster_reports == Cardinality(HistoryEntries(list, ks))
    IN  [total_requests                |-> total,
         requests_at_chronic_locations |-> cat_cluster_reports,
         rereports                     |-> cat_rereports,
         recurrence_pct                |-> Pct1(cat_rereports, total),
         chronic_location_pct          |-> Pct1(cat_cluster_reports, total)]

\* stats[cat] for a category with at least one request
CategoryStats(d, list, cat) ==
    LET total == Cardinality({k \in DOMAIN d : categorize_type(d[k].srtype) = cat})
        ks    == HotspotsOfCategory(list, cat)
        cat_rereports       == Cardinality(RereportEntries(list, ks))
        cat_cluster_reports == Cardinality(HistoryEntries(list, ks))
    IN  [total_requests                |-> total,
         requests_at_chronic_locations |-> cat_cluster_reports,
         rereports                     |-> cat_rereports,
         recurrence_pct                |-> Pct1(cat_rereports, total),
         chronic_location_pct          |-> Pct1(cat_cluster_reports, total)]

\* the categories of df.groupby('_category'), in the key order of groupby
RECURSIVE SortedStrings(_)
SortedStrings(S) ==
    IF S = {} THEN <<>>
    ELSE LET m == CHOOSE x \in S : \A y \in S : y = x \/ StrLt(x, y)
         IN  <<m>> \o SortedStrings(S \ {m})

\* sorted(items, key=...): a stable insertion of item into the sorted list
RECURSIVE InsertStable(_, _)
InsertStable(sorted, item) ==
    IF sorted = <<>> THEN <<item>>
    ELSE IF -sorted[Len(sorted)][2].recurrence_pct <= -item[2].recurrence_pct
         THEN Append(sorted, item)
         ELSE Append(InsertStable(SubSeq(sorted, 1, Len(sorted) - 1), item),
                     sorted[Len(sorted)])

\* sorted(stats.items(), key=lambda x: -x[1]['recurrence_pct']) of items[1..k]
RECURSIVE SortByRecurrence(_, _)
SortByRecurrence(items, k) ==
    IF k = 0 THEN <<>>
    ELSE InsertStable(SortByRecurrence(items, k - 1), items[k])

\* category_fix_rates(df_311, hotspots_list): the items of the dict, in order
category_fix_rates(d, list) ==
    IF ~HasColumn(d, "srtype") THEN <<>>
    ELSE LET cats  == SortedStrings({categorize_type(d[k].srtype) : k \in DOMAIN d})
             items == [k \in DOMAIN cats |-> <<cats[k], CategoryStats(d, list, cats[k])>>]
         IN  SortByRecurrence(items, Len(items))

----------------------------------------------------------------------------
(* fetch_311.py *)

\* the records of a layer that a query with resultOffset and a record count
\* selects; a record is its position in the layer
RecordsFrom(records, resultOffset, count) ==
    LET last == IF resultOffset + count < records
                THEN resultOffset + count ELSE records
    IN  IF last <= resultOffset THEN <<>>
        ELSE [i \in 1..(last - resultOffset) |-> resultOffset + i]

\* what requests.get, raise_for_status and resp.json() can give for one
\* request: an exception, or the decoded body, which is an object with the
\* key "error", something that is no object, or a page of at most
\* maxRecordCount features with or without exceededTransferLimit
Replies(server, resultOffset, resultRecordCount) ==
    LET count == IF resultRecordCount < server.maxRecordCount
                 THEN resultRecordCount ELSE server.maxRecordCount
        body(kind, features, flag) ==
            [kind |-> kind, features |-> features, exceededTransferLimit |-> flag]
    IN  {body(kind, <<>>, None) :
            kind \in {"RequestException", "ValueError", "error", "no object"}}
        \cup {body("page", RecordsFrom(server.records, resultOffset, count), flag) :
                flag \in {None, Some(FALSE), Some(TRUE)}}

\* offset += PAGE_SIZE, taken as twice the page
NextOffset_SkipsAPage(offset) == offset + 2 * PAGE_SIZE

\* offset += PAGE_SIZE
NextOffset(offset) == offset + PAGE_SIZE

----------------------------------------------------------------------------
(* generate_dashboard.py *)

\* dashboard_categorize_type without the lower-casing of the type
dashboard_categorize_type_CaseSensitive(srtype) ==
    LET t == srtype
        has(word) == Contains(Chars(word), t)
    IN  IF srtype = <<>> THEN Chars("Other")
        ELSE IF has("pothole") THEN Chars("Pothole")
        ELSE IF has("light") \/ has("streetlight") THEN Chars("Street Light")
        ELSE IF has("alley") THEN Chars("Alley")
        ELSE IF has("sidewalk") THEN Chars("Sidewalk")
        ELSE IF has("water") \/ has("main") THEN Chars("Water Main")
        ELSE IF has("cave") \/ has("sinkhole") THEN Chars("Cave-In / Sinkhole")
        ELSE IF has("storm") \/ has("drain") \/ has("catch")
             THEN Chars("Storm Drain")
        ELSE IF has("curb") \/ has("bridge") \/ has("street")
             THEN Chars("Street / Curb")
        ELSE Chars("Other")

\* categorize_type(srtype) of the dashboard generator (None and '' are both
\* the empty sequence)
dashboard_categorize_type(srtype) ==
    LET t == Lower(srtype)
        has(word) == Contains(Chars(word), t)
    IN  IF srtype = <<>> THEN Chars("Other")
        ELSE IF has("pothole") THEN Chars("Pothole")
        ELSE IF has("light") \/ has("streetlight") THEN Chars("Street Light")
        ELSE IF has("alley") THEN Chars("Alley")
        ELSE IF has("sidewalk") THEN Chars("Sidewalk")
        ELSE IF has("water") \/ has("main") THEN Chars("Water Main")
        ELSE IF has("cave") \/ has("sinkhole") THEN Chars("Cave-In / Sinkhole")
        ELSE IF has("storm") \/ has("drain") \/ has("catch")
             THEN Chars("Storm Drain")
        ELSE IF has("curb") \/ has("bridge") \/ has("street")
             THEN Chars("Street / Curb")
        ELSE Chars("Other")

----------------------------------------------------------------------------
(* Inputs *)

\* the non-decreasing sequences over 1..k of length 0..n
RECURSIVE SortedIndexSeqs(_, _)
SortedIndexSeqs(k, n) ==
    IF n = 0 THEN {<<>>}
    ELSE LET shorter == SortedIndexSeqs(k, n - 1)
         IN  shorter \cup
             UNION { { Append(s, i) :
                         i \in (IF s = <<>> THEN 1 ELSE s[Len(s)])..k }
                     : s \in {t \in shorter : Len(t) = n - 1} }

\* the tables of 1..n rows drawn from a catalogue, in catalogue order
Tables(catalogue, n) ==
    { [m \in DOMAIN s |-> catalogue[s[m]]] :
        s \in SortedIndexSeqs(Len(catalogue), n) \ {<<>>} }

\* Requests at two sites 1000 m apart (times in ticks: 120 = day 60,
\* 160 = day 80, 179 = day 89.5, 180 = day 90, 200 = day 100, 400 = day 200);
\* those of the second site are not in the order of their creation
SiteCatalogue ==
    << Row(0, 0, Str_Open, NaT),
       Row(0, 0, Str_Closed, 120),
       Row(0, 160, Str_Open, NaT),
       Row(0, 200, Str_Open, NaT),
       Row(1000, NaT, Str_Open, NaT),
       Row(1000, 400, Str_Open, NaT),
       Row(1000, 0, Str_Open, NaT),
       Row(1000, 179, Str_Open, NaT),
       Row(1000, 180, Str_Open, NaT) >>

\* Requests at one site around a closure at tick 120 (day 60): created at
\* the closure, 12 hours, 30 days, 120 days, 120.5 days and 150 days after;
\* and a request created on day 10 whose status changed on day 0
WalkCatalogue ==
    << Row(0, 0, Str_Open, NaT),
       Row(0, 0, Str_Closed, 120),
       Row(0, 0, Str_CLOSED, 120),
       Row(0, 0, Str_ClosedDuplicate, 120),
       Row(0, 0, Str_Closed, NaT),
       Row(0, 20, Str_Closed, 0),
       Row(0, 120, Str_Open, NaT),
       Row(0, 121, Str_Open, NaT),
       Row(0, 180, Str_Open, NaT),
       Row(0, 360, Str_Open, NaT),
       Row(0, 361, Str_Open, NaT),
       Row(0, 420, Str_Open, NaT),
       Row(0, NaT, Str_Open, NaT) >>

\* latitudes of the clustering inputs: 0-75 at the radius, 75-151 just
\* beyond it, 0-50-125 a chain, 1000 far from all
PointLatitudes == {0, 50, 75, 125, 151, 227, 1000}

\* all sequences of 1..n open requests at those latitudes, in any order
PointTables(n) ==
    UNION { [1..m -> {Row(lat, 0, Str_Open, NaT) : lat \in PointLatitudes}]
            : m \in 1..n }

\* df_reddit of load_data: None when the file is missing, else its rows
NoFile == [exists |-> FALSE, rows |-> <<>>]
RedditFile(rows) == [exists |-> TRUE, rows |-> rows]

\* the run time of the modelled runs: tick 400, day 200
RunTime == 400

Str_Pothole == Chars("Pothole")
Str_StreetLightOut == Chars("Street Light Out")
Str_AlleyCleaning == Chars("Alley Cleaning")
Str_Canton == Chars("Canton")
Str_FellsPoint == Chars("Fells Point")
Str_UpperFellsPoint == Chars("Upper Fells Point")

\* Requests of Canton around the two cutoffs of a run at RunTime (day 20 is
\* prior_cutoff, day 110 recent_cutoff): 12 hours before each, at each, 12
\* hours after the run, undated; of Fells Point inside each window; and one
\* without a neighborhood
NeighborhoodCatalogue ==
    << FullRow(0, 39, Str_Open, NaT, Str_Canton, Str_Pothole),
       FullRow(0, 40, Str_Open, NaT, Str_Canton, Str_Pothole),
       FullRow(0, 219, Str_Open, NaT, Str_Canton, Str_Pothole),
       FullRow(0, 220, Str_Open, NaT, Str_Canton, Str_Pothole),
       FullRow(0, 400, Str_Open, NaT, Str_Canton, Str_Pothole),
       FullRow(0, 401, Str_Open, NaT, Str_Canton, Str_Pothole),
       FullRow(0, NaT, Str_Open, NaT, Str_Canton, Str_Pothole),
       FullRow(1000, 100, Str_Open, NaT, Str_FellsPoint, Str_Pothole),
       FullRow(1000, 300, Str_Open, NaT, Str_FellsPoint, Str_Pothole),
       FullRow(2000, 300, Str_Open, NaT, <<>>, Str_Pothole) >>

\* One request of each of three neighborhoods, one name inside another
GapCatalogue ==
    << FullRow(0, 0, Str_Open, NaT, Str_Canton, Str_Pothole),
       FullRow(1000, 0, Str_Open, NaT, Str_FellsPoint, Str_Pothole),
       FullRow(2000, 0, Str_Open, NaT, Str_UpperFellsPoint, Str_Pothole) >>

\* location_hints cells: arrays of strings (a hint inside a name, a name
\* inside a hint, in other case, no match, the empty hint), a missing cell,
\* a text that is not JSON, and JSON that is not an array of strings
HintCells ==
    << PyStr(Chars("[\"canton\"]")),
       PyStr(Chars("[\"Canton Square\", \"CANTON\"]")),
       PyStr(Chars("[\"Fells\"]")),
       PyStr(Chars("[\"Hampden\", \"\"]")),
       PyNaN,
       PyStr(Chars("canton, fells point")),
       PyStr(Chars("5")),
       PyStr(Chars("true")),
       PyStr(Chars("[\"canton\", 1]")),
       PyStr(Chars("\"Canton\"")) >>

\* location_hints cells that json.dumps of a list of strings wrote
ScoreHintCells ==
    << PyStr(Chars("[\"Canton Square\", \"CANTON\"]")),
       PyStr(Chars("[\"Fells\"]")) >>

\* the Reddit inputs: no file, or a file of 0..n posts with cells of cells
RedditInputs(cells, n) ==
    {NoFile} \cup
    { RedditFile([m \in DOMAIN s |-> Post(cells[s[m]])]) :
        s \in SortedIndexSeqs(Len(cells), n) }

\* Requests at two sites: a closed pothole request and later requests of
\* several types at the first, the same for street lights at the second
CategoryCatalogue ==
    << FullRow(0, 0, Str_Closed, 20, Str_Canton, Str_Pothole),
       FullRow(0, 100, Str_Open, NaT, Str_Canton, Str_Pothole),
       FullRow(0, 100, Str_Open, NaT, Str_Canton, Str_StreetLightOut),
       FullRow(0, 200, Str_Open, NaT, Str_Canton, Str_StreetLightOut),
       FullRow(1000, 0, Str_Closed, 20, Str_FellsPoint, Str_StreetLightOut),
       FullRow(1000, 100, Str_Open, NaT, Str_FellsPoint, Str_AlleyCleaning),
       FullRow(1000, 200, Str_Open, NaT, Str_FellsPoint, Str_StreetLightOut) >>

\* a request row with every column; resolution_days is derived upstream as
\* (statusdate - createddate).dt.days
Request(created, status, status_date, neighborhood, srtype, street) ==
    [latitude |-> 0, createddate |-> created,
     srstatus |-> status, statusdate |-> status_date,
     neighborhood |-> neighborhood, srtype |-> srtype, street |-> street,
     resolution_days |-> DaysBetween(status_date, created)]

\* Requests at one place over 100 days: closed on the day of creation, closed
\* without a status-change date, open with a status-change date, closed
\* after 5, 3 and 10 days; one without neighborhood and street, one with
\* the empty neighborhood name
RequestCatalogue ==
    << Request(0, Str_Closed, 0, Str_Canton, Str_Pothole, Chars("Elm St")),
       Request(0, Str_Closed, NaT, Str_Canton, Str_Pothole, Chars("Elm St")),
       Request(0, Str_Open, 8, Str_Canton, Str_Pothole, Chars("Elm St")),
       Request(100, Str_Closed, 110, Str_Canton, Str_StreetLightOut, Chars("Oak St")),
       Request(200, Str_Open, NaT, NaNStr, Str_Pothole, NaNStr),
       Request(200, Str_Closed, 206, <<>>, Str_Pothole, Chars("Elm St")),
       Request(200, Str_Closed, 220, Str_FellsPoint, Str_StreetLightOut, Chars("Oak St")) >>

\* the columns a table may lack
OptionalColumns == {"neighborhood", "srtype", "srstatus", "street", "resolution_days"}

\* the table without the columns of missing
WithoutColumns(d, missing) ==
    [k \in DOMAIN d |-> [col \in DOMAIN d[k] \ missing |-> d[k][col]]]

\* words of request types: every keyword of categorize_type in some case,
\* and words without a keyword
TypeWords ==
    << "Pothole", "street", "LIGHT", "Streetlight", "Alley", "Sidewalk",
       "Water", "Main", "Cave-In", "Sinkhole", "Storm", "Drain", "Catch",
       "Curb", "Bridge", "Graffiti", "Repair" >>

\* the texts of exactly n words joined by single spaces
RECURSIVE Phrases(_)
Phrases(n) ==
    IF n = 0 THEN {<<>>}
    ELSE { (IF s = <<>> THEN s ELSE Append(s, " ")) \o Chars(TypeWords[w]) :
              s \in Phrases(n - 1), w \in DOMAIN TypeWords }

\* the request types of at most n words, the empty one among them
TypeStrings(n) == UNION { Phrases(m) : m \in 0..n }

----------------------------------------------------------------------------
(* main() *)

TypeOK ==
    /\ pc \in {"loaded", "clustered", "hotspots", "neighborhoods", "gaps",
             "categories", "done", "raised", "call", "returned", "fetching"}
    /\ Len(cluster_id) \in {0, Len(df)}

\* the state of main() after load_data(): nothing computed yet
Started ==
    /\ pc = "loaded"
    /\ cluster_id = <<>>
    /\ sorted_reports = <<>>
    /\ hotspots = <<>>
    /\ neighborhoods = <<>>
    /\ reddit_neighborhood_signals = <<>>
    /\ gaps = <<>>
    /\ cat_stats = <<>>
    /\ output = <<>>
    /\ args = <<>>
    /\ result = <<>>

Init ==
    /\ df \in Tables(SiteCatalogue, MaxRows)
    /\ df_reddit = NoFile
    /\ now = RunTime
    /\ Started

InitWalk ==
    /\ df \in Tables(WalkCatalogue, MaxWalkRows)
    /\ df_reddit = NoFile
    /\ now = RunTime
    /\ Started

InitCluster ==
    /\ df \in PointTables(MaxPoints)
    /\ df_reddit = NoFile
    /\ now = RunTime
    /\ Started

InitNeighborhood ==
    /\ df \in Tables(NeighborhoodCatalogue, MaxNeighborhoodRows)
    /\ df_reddit = NoFile
    /\ now = RunTime
    /\ Started

InitGap ==
    /\ df \in Tables(GapCatalogue, MaxGapRows)
    /\ df_reddit \in RedditInputs(HintCells, MaxPosts)
    /\ now = RunTime
    /\ Started

InitGapScore ==
    /\ df \in Tables(GapCatalogue, MaxScoreRows)
    /\ df_reddit \in RedditInputs(ScoreHintCells, MaxScorePosts)
    /\ now = RunTime
    /\ Started

InitCategory ==
    /\ df \in Tables(CategoryCatalogue, MaxCategoryRows)
    /\ df_reddit = NoFile
    /\ now = RunTime
    /\ Started

InitRequests ==
    /\ \E d \in Tables(RequestCatalogue, MaxRequestRows) :
         \E missing \in {m \in SUBSET OptionalColumns : Cardinality(m) <= MaxMissing} :
            df = WithoutColumns(d, missing)
    /\ df_reddit \in {NoFile, RedditFile(<<Post(ScoreHintCells[1]),
                                           Post(ScoreHintCells[2])>>)}
    /\ now = RunTime
    /\ Started

\* a single call of a function: nothing of main() has run
Calling(arguments) ==
    /\ pc = "call"
    /\ args = arguments
    /\ result = <<>>
    /\ df = <<>>
    /\ df_reddit = NoFile
    /\ now = RunTime
    /\ cluster_id = <<>>
    /\ sorted_reports = <<>>
    /\ hotspots = <<>>
    /\ neighborhoods = <<>>
    /\ reddit_neighborhood_signals = <<>>
    /\ gaps = <<>>
    /\ cat_stats = <<>>
    /\ output = <<>>

InitSeverity ==
    \E report_count \in 1..MaxReportCount, span_days \in 0..MaxSpanDays :
        Calling([report_count |-> report_count, span_days |-> span_days])

InitCategorize ==
    \E srtype \in TypeStrings(MaxWords) : Calling([srtype |-> srtype])

\* fetch_year(year) before its first request: the layer of the year holds
\* a whole number of pages or one record more, and gives at most
\* maxRecordCount records per request
InitFetch ==
    /\ pc = "fetching"
    /\ \E pages \in 0..MaxPages, extra \in {0, 1},
          maxRecordCount \in {PAGE_SIZE \div 2, PAGE_SIZE} :
          args = [records |-> pages * PAGE_SIZE + extra,
                  maxRecordCount |-> maxRecordCount]
    /\ result = [offset |-> 0, all_features |-> <<>>, requests |-> <<>>]
    /\ df = <<>>
    /\ df_reddit = NoFile
    /\ now = RunTime
    /\ cluster_id = <<>>
    /\ sorted_reports = <<>>
    /\ hotspots = <<>>
    /\ neighborhoods = <<>>
    /\ reddit_neighborhood_signals = <<>>
    /\ gaps = <<>>
    /\ cat_stats = <<>>
    /\ output = <<>>

\* CopyWithColumn without the copy: the column is assigned to the argument
CopyWithColumn_InPlace(d, col, values) ==
    LET assigned == [k \in DOMAIN d |->
                        [c \in DOMAIN d[k] \cup {col} |->
                            IF c = col THEN values[k] ELSE d[k][c]]]
    IN  [arg |-> assigned, ret |-> assigned]

\* df = df.copy(); df[col] = values: the caller's table after the
\* statements (arg) and the table they built (ret)
CopyWithColumn(d, col, values) ==
    [arg |-> d,
     ret |-> [k \in DOMAIN d |->
                 [c \in DOMAIN d[k] \cup {col} |->
                     IF c = col THEN values[k] ELSE d[k][c]]]]

\* Step 1: df_clustered = cluster_locations(df_311)
ClusterLocations ==
    /\ pc = "loaded"
    /\ \E labels \in {cluster_locations(df)} :
          LET out == CopyWithColumn(df, "cluster_id", labels)
          IN  /\ df' = out.arg
              /\ cluster_id' = [k \in DOMAIN out.ret |-> out.ret[k].cluster_id]
    /\ pc' = "clustered"
    /\ UNCHANGED <<df_reddit, now, sorted_reports, hotspots, neighborhoods,
                   reddit_neighborhood_signals, gaps, cat_stats, output,
                   args, result>>

\* Step 2: hotspots_df = identify_chronic_hotspots(df_clustered); an
\* exception leaves main()
IdentifyChronicHotspots ==
    /\ pc = "clustered"
    /\ IF IdentifyRaises(df, cluster_id)
       THEN /\ pc' = "raised"
            /\ UNCHANGED <<hotspots, sorted_reports>>
       ELSE /\ \E kept \in HotspotLoop(df, cluster_id, ClusterIds(cluster_id), 1) :
                 \E out \in SortBySeverity(kept) :
                    /\ hotspots' = [k \in DOMAIN out |-> out[k].h]
                    /\ sorted_reports' = [k \in DOMAIN out |-> out[k].w]
            /\ pc' = "hotspots"
    /\ UNCHANGED <<df, df_reddit, now, cluster_id, neighborhoods,
                   reddit_neighborhood_signals, gaps, cat_stats, output,
                   args, result>>

\* Step 3: neighborhoods = neighborhood_summary(df_311); an exception
\* leaves main()
NeighborhoodSummary ==
    /\ pc = "hotspots"
    /\ IF SummaryRaises(df)
       THEN pc' = "raised" /\ UNCHANGED neighborhoods
       ELSE /\ neighborhoods' = neighborhood_summary(df, now)
            /\ pc' = "neighborhoods"
    /\ UNCHANGED <<df, df_reddit, now, cluster_id, sorted_reports, hotspots,
                   reddit_neighborhood_signals, gaps, cat_stats, output,
                   args, result>>

\* Step 4: gaps = gap_analysis(df_311, df_reddit); an exception leaves main()
GapAnalysis ==
    /\ pc = "neighborhoods"
    /\ IF NoPosts(df_reddit)
       THEN /\ pc' = "gaps"
            /\ UNCHANGED <<reddit_neighborhood_signals, gaps>>
       ELSE IF GapAnalysisRaises(df_reddit)
       THEN /\ pc' = "raised"
            /\ UNCHANGED <<reddit_neighborhood_signals, gaps>>
       ELSE LET counts  == report_counts(df)
                signals == Signals(counts, df_reddit.rows)
            IN  /\ reddit_neighborhood_signals' = signals
                /\ gaps' \in SortByGapScore(GapRecords(counts, signals))
                /\ pc' = "gaps"
    /\ UNCHANGED <<df, df_reddit, now, cluster_id, sorted_reports, hotspots,
                   neighborhoods, cat_stats, output, args, result>>

\* Step 5: cat_stats = category_fix_rates(df_311, hotspots_list); past its
\* guards the function adds the column _category to a copy of df_311
CategoryFixRates ==
    /\ pc = "gaps"
    /\ cat_stats' = category_fix_rates(df, hotspots)
    /\ df' = IF HasColumn(df, "srtype")
             THEN CopyWithColumn(df, "_category",
                      [k \in DOMAIN df |-> categorize_type(df[k].srtype)]).arg
             ELSE df
    /\ pc' = "categories"
    /\ UNCHANGED <<df_reddit, now, cluster_id, sorted_reports, hotspots,
                   neighborhoods, reddit_neighborhood_signals, gaps, output,
                   args, result>>

\* summary_stats and json.dump(output)
WriteOutput ==
    /\ pc = "categories"
    /\ output' = [total_requests         |-> Len(df),
                  chronic_hotspots       |-> Len(hotspots),
                  high_priority_hotspots |->
                      Cardinality({k \in DOMAIN hotspots :
                                      hotspots[k].is_high_priority}),
                  neighborhoods_analyzed |-> Cardinality(DOMAIN neighborhoods),
                  gap_neighborhoods      |-> Len(gaps)]
    /\ pc' = "done"
    /\ UNCHANGED <<df, df_reddit, now, cluster_id, sorted_reports, hotspots,
                   neighborhoods, reddit_neighborhood_signals, gaps, cat_stats,
                   args, result>>

\* severity_score on its own
CallSeverityScore ==
    /\ pc = "call"
    /\ result' = severity_score(args.report_count, args.span_days)
    /\ pc' = "returned"
    /\ UNCHANGED <<df, df_reddit, now, cluster_id, sorted_reports, hotspots,
                   neighborhoods, reddit_neighborhood_signals, gaps, cat_stats,
                   output, args>>

\* categorize_type on its own
CallCategorizeType ==
    /\ pc = "call"
    /\ result' = categorize_type(args.srtype)
    /\ pc' = "returned"
    /\ UNCHANGED <<df, df_reddit, now, cluster_id, sorted_reports, hotspots,
                   neighborhoods, reddit_neighborhood_signals, gaps, cat_stats,
                   output, args>>

\* the two categorize_type functions on one request type: the analysis
\* engine's, and the dashboard generator's
CallBothCategorizeTypes ==
    /\ pc = "call"
    /\ result' = [analysis  |-> categorize_type(args.srtype),
                  dashboard |-> dashboard_categorize_type(args.srtype)]
    /\ pc' = "returned"
    /\ UNCHANGED <<df, df_reddit, now, cluster_id, sorted_reports, hotspots,
                   neighborhoods, reddit_neighborhood_signals, gaps, cat_stats,
                   output, args>>

\* one pass of the while loop of fetch_year: a request at the current
\* offset and what the loop does with the reply
FetchPage ==
    /\ pc = "fetching"
    /\ \E data \in Replies(args, result.offset, PAGE_SIZE) :
          LET made == Append(result.requests,
                             [resultOffset |-> result.offset,
                              resultRecordCount |-> PAGE_SIZE,
                              data |-> data])
              extended == result.all_features \o data.features
          IN  IF data.kind \in {"RequestException", "ValueError", "error"}
              THEN /\ result' = [result EXCEPT !.requests = made]
                   /\ pc' = "returned"
              ELSE IF data.kind = "no object"
              THEN /\ result' = [result EXCEPT !.requests = made]
                   /\ pc' = "raised"
              ELSE IF data.features = <<>>
              THEN /\ result' = [result EXCEPT !.requests = made]
                   /\ pc' = "returned"
              ELSE IF data.exceededTransferLimit # Some(TRUE)
              THEN /\ result' = [result EXCEPT !.requests = made,
                                               !.all_features = extended]
                   /\ pc' = "returned"
              ELSE /\ result' = [offset |-> NextOffset(result.offset),
                                 all_features |-> extended,
                                 requests |-> made]
                   /\ pc' = "fetching"
    /\ UNCHANGED <<df, df_reddit, now, cluster_id, sorted_reports, hotspots,
                   neighborhoods, reddit_neighborhood_signals, gaps, cat_stats,
                   output, args>>

Next ==
    \/ ClusterLocations
    \/ IdentifyChronicHotspots
    \/ NeighborhoodSummary
    \/ GapAnalysis
    \/ CategoryFixRates
    \/ WriteOutput

Spec == Init /\ [][Next]_vars

SpecWalk == InitWalk /\ [][Next]_vars

SpecCluster == InitCluster /\ [][Next]_vars

SpecNeighborhood == InitNeighborhood /\ [][Next]_vars

SpecGap == InitGap /\ [][Next]_vars

SpecGapScore == InitGapScore /\ [][Next]_vars

SpecCategory == InitCategory /\ [][Next]_vars

SpecRequests == InitRequests /\ [][Next]_vars

SpecSeverity == InitSeverity /\ [][CallSeverityScore]_vars

SpecCategorize == InitCategorize /\ [][CallCategorizeType]_vars

SpecDashboard == InitCategorize /\ [][CallBothCategorizeTypes]_vars

\* fetch_year runs on: a request ends with a reply or, after the timeout of
\* 30 seconds, with an exception, and the loop then makes its next pass
SpecFetch == InitFetch /\ [][FetchPage]_vars /\ WF_vars(FetchPage)

----------------------------------------------------------------------------
(* Properties *)

\* the rows of the table that cluster_locations put in cluster c
Members(c) == {i \in DOMAIN df : cluster_id[i] = c}

\* the number of flagged entries of a history
FlaggedCount(history) ==
    Cardinality({k \in DOMAIN history : history[k].is_rereport})

\* the closure tracked when row k of a walk is reached: the status-change
\* timestamp of the latest earlier row that is closed and has one
TrackedBefore(walk, k) ==
    LET prior == {j \in 1..(k - 1) : TracksClosure(walk[j])}
    IN  IF prior = {} THEN NaT
        ELSE walk[CHOOSE j \in prior : \A m \in prior : m <= j].statusdate

\* C1: walking a cluster in creation order, a request is flagged is_rereport
\* exactly when a closure is tracked and the time from that closure to the
\* request's creation is more than 0 and at most 120 days.
C1_RereportIffGapInWindow ==
    pc = "hotspots" =>
        \A h \in DOMAIN hotspots :
            \A k \in DOMAIN hotspots[h].history :
                LET created == sorted_reports[h][k].createddate
                    closure == TrackedBefore(sorted_reports[h], k)
                IN  hotspots[h].history[k].is_rereport <=>
                        /\ closure # NaT
                        /\ created # NaT
                        /\ created - closure > 0
                        /\ created - closure <= FAILED_FIX_WINDOW_DAYS * TicksPerDay

\* C2: a hotspot's possible_failed_fixes is the number of entries of its
\* history that are flagged is_rereport.
C2_FailedFixesIsFlaggedCount ==
    pc = "hotspots" =>
        \A h \in DOMAIN hotspots :
            hotspots[h].possible_failed_fixes = FlaggedCount(hotspots[h].history)

\* the table is 5 reports at one place, created over exactly 100 days, 2 of
\* them created within 60 days after a closure at that place
IsEndToEndScenario ==
    /\ Len(df) = 5
    /\ \A i, j \in DOMAIN df : df[i].latitude = df[j].latitude
    /\ \A i \in DOMAIN df : df[i].createddate # NaT
    /\ \E i, j \in DOMAIN df :
           /\ df[j].createddate - df[i].createddate = 100 * TicksPerDay
           /\ \A m \in DOMAIN df : /\ df[i].createddate <= df[m].createddate
                                   /\ df[m].createddate <= df[j].createddate
    /\ Cardinality({ i \in DOMAIN df :
           \E j \in DOMAIN df :
               /\ df[j].srstatus = Str_Closed
               /\ df[j].statusdate # NaT
               /\ df[i].createddate - df[j].statusdate > 0
               /\ df[i].createddate - df[j].statusdate <= 60 * TicksPerDay }) = 2

\* C3: 5 co-located reports spanning 100 days, 2 of them within 60 days after
\* a closure, give exactly one hotspot with report_count 5, span_days 100,
\* possible_failed_fixes 2 and is_high_priority true.
C3_EndToEndScenario ==
    (pc = "hotspots" /\ IsEndToEndScenario) =>
        /\ Len(hotspots) = 1
        /\ hotspots[1].report_count = 5
        /\ hotspots[1].span_days = 100
        /\ hotspots[1].possible_failed_fixes = 2
        /\ hotspots[1].is_high_priority

\* the creation timestamps of cluster c span at least 90 days
SpansChronicDays(c) ==
    \E i, j \in Members(c) :
        /\ df[i].createddate # NaT
        /\ df[j].createddate # NaT
        /\ df[j].createddate - df[i].createddate >= CHRONIC_MIN_DAYS_SPAN * TicksPerDay

\* C4: a cluster gets a hotspot, and exactly one, if and only if it is not
\* the unclustered sentinel, has at least 4 reports and its first and last
\* creation timestamps are at least 90 days apart.
C4_HotspotIffChronic ==
    pc = "hotspots" =>
        \A c \in {cluster_id[i] : i \in DOMAIN df} :
            Cardinality({h \in DOMAIN hotspots : hotspots[h].cluster_id = c})
                = IF /\ c # NOISE
                     /\ Cardinality(Members(c)) >= CHRONIC_MIN_REPORTS
                     /\ SpansChronicDays(c)
                  THEN 1 ELSE 0

\* C5: a hotspot is high priority if and only if its cluster has at least 8
\* reports or it has at least 2 possible failed fixes.
C5_HighPriorityIff ==
    pc = "hotspots" =>
        \A h \in DOMAIN hotspots :
            hotspots[h].is_high_priority <=>
                \/ Cardinality(Members(hotspots[h].cluster_id)) >= HIGH_CHRONIC_THRESHOLD
                \/ hotspots[h].possible_failed_fixes >= 2

\* a hotspot that is high priority by its failed fixes alone, beside one that
\* is not high priority
C5_Witness ==
    /\ pc = "hotspots"
    /\ \E h, g \in DOMAIN hotspots :
           /\ hotspots[h].is_high_priority
           /\ hotspots[h].report_count < HIGH_CHRONIC_THRESHOLD
           /\ hotspots[h].possible_failed_fixes >= 2
           /\ ~hotspots[g].is_high_priority

\* a status that contains the token "closed" in any letter case
HasClosedToken(status) == Contains(Str_closed, Lower(status))

\* the closures, by that token, of a walk that have a status-change timestamp
\* and a report created in the 120 days after it
FollowedTokenClosures(walk) ==
    { i \in DOMAIN walk :
        /\ HasClosedToken(walk[i].srstatus)
        /\ walk[i].statusdate # NaT
        /\ \E j \in DOMAIN walk :
               /\ walk[j].createddate # NaT
               /\ walk[j].createddate > walk[i].statusdate
               /\ walk[j].createddate
                      <= walk[i].statusdate + FAILED_FIX_WINDOW_DAYS * TicksPerDay }

\* C6: any status containing "closed", in any letter case, is a closure, and
\* this one definition decides the is_rereport flags and the
\* possible_failed_fixes count alike.
C6_ClosedTokenDrivesFlagsAndCount ==
    pc = "hotspots" =>
        \A h \in DOMAIN hotspots :
            LET walk == sorted_reports[h]
            IN  /\ \A k \in DOMAIN walk :
                       hotspots[h].history[k].is_rereport =>
                           \E j \in 1..(k - 1) : HasClosedToken(walk[j].srstatus)
                /\ hotspots[h].possible_failed_fixes
                       = Cardinality(FollowedTokenClosures(walk))

\* a closed request without a status-change timestamp
IsUndatedClosure(row) == HasClosedToken(row.srstatus) /\ row.statusdate = NaT

\* the walk with its undated closures reopened
WithoutUndatedClosures(walk) ==
    [k \in DOMAIN walk |->
        IF IsUndatedClosure(walk[k])
        THEN [walk[k] EXCEPT !.srstatus = Str_Open] ELSE walk[k]]

\* the is_rereport flags of a history
Flags(history) == [k \in DOMAIN history |-> history[k].is_rereport]

\* C7: a request without a creation timestamp is never flagged, and a closed
\* request without a status-change timestamp is never the tracked closure and
\* changes no flag and no failed-fix count: both are what they would be were
\* that request not closed.
C7_MissingTimestampsAreNoSignal ==
    pc = "hotspots" =>
        \A h \in DOMAIN hotspots :
            LET walk == sorted_reports[h]
            IN  /\ \A k \in DOMAIN walk :
                       walk[k].createddate = NaT =>
                           ~hotspots[h].history[k].is_rereport
                /\ \A k \in DOMAIN walk :
                       hotspots[h].history[k].is_rereport =>
                           \E j \in 1..(k - 1) :
                               /\ HasClosedToken(walk[j].srstatus)
                               /\ walk[j].statusdate # NaT
                               /\ \A m \in (j + 1)..(k - 1) :
                                      ~(HasClosedToken(walk[m].srstatus)
                                        /\ walk[m].statusdate # NaT)
                               /\ (walk[k].createddate - walk[j].statusdate)
                                      \div TicksPerDay \in 1..FAILED_FIX_WINDOW_DAYS
                /\ Flags(hotspots[h].history)
                       = Flags(build_report_history(WithoutUndatedClosures(walk)))
                /\ hotspots[h].possible_failed_fixes
                       = detect_failed_fixes(WithoutUndatedClosures(walk))

\* a hotspot whose walk has a dated closure, then an undated one, then a
\* flagged report, and a report without creation timestamp
C7_Witness ==
    /\ pc = "hotspots"
    /\ \E h \in DOMAIN hotspots :
           LET walk == sorted_reports[h]
           IN  /\ \E k \in DOMAIN walk : walk[k].createddate = NaT
               /\ \E i, j, k \in DOMAIN walk :
                      /\ i < j /\ j < k
                      /\ TracksClosure(walk[i])
                      /\ IsUndatedClosure(walk[j])
                      /\ hotspots[h].history[k].is_rereport
               /\ hotspots[h].possible_failed_fixes >= 1

\* rows i and j are within the clustering radius of each other
Linked(i, j) ==
    (IF df[i].latitude >= df[j].latitude
     THEN df[i].latitude - df[j].latitude
     ELSE df[j].latitude - df[i].latitude) <= CLUSTER_EPS_METERS

\* the rows reachable from the set S by chains of linked rows
RECURSIVE ChainFrom(_)
ChainFrom(S) ==
    LET more == S \cup {j \in DOMAIN df : \E i \in S : Linked(i, j)}
    IN  IF more = S THEN S ELSE ChainFrom(more)

Swapped(i) ==
    [k \in DOMAIN df |-> IF k = i THEN df[i + 1] ELSE IF k = i + 1 THEN df[i] ELSE df[k]]

\* the labels cluster_locations gives the rows when rows i and i + 1 arrive
\* in the other order, listed in the order of df
LabelsIfSwapped(i) ==
    LET labels == cluster_locations(Swapped(i))
    IN  [k \in DOMAIN df |->
            IF k = i THEN labels[i + 1] ELSE IF k = i + 1 THEN labels[i] ELSE labels[k]]

\* the clusters (sets of rows) and the unclustered rows of a labelling
Grouping(labels) ==
    [clusters    |-> { {i \in DOMAIN labels : labels[i] = c} :
                         c \in {labels[i] : i \in DOMAIN labels} \ {NOISE} },
     unclustered |-> {i \in DOMAIN labels : labels[i] = NOISE}]

\* C9: the clusters and the unclustered rows do not depend on the order of
\* the rows. Every order of every table is an initial state and exchanges of
\* neighbouring rows generate all orders, so it is stated for one exchange.
C9_GroupingIsOrderInvariant ==
    pc # "loaded" =>
        \A i \in 1..(Len(df) - 1) :
            Grouping(LabelsIfSwapped(i)) = Grouping(cluster_id)

\* two clusters whose id numbers change with the row order
C9_Witness ==
    /\ pc = "clustered"
    /\ Cardinality(Grouping(cluster_id).clusters) >= 2
    /\ \E i \in 1..(Len(df) - 1) : LabelsIfSwapped(i) # cluster_id

\* C10: the hotspot list is in non-increasing severity_score order: each
\* hotspot's score is >= the score of the one after it.
C10_SortedBySeverity ==
    pc = "hotspots" =>
        \A k \in 1..(Len(hotspots) - 1) :
            /\ hotspots[k].severity_score # NaN
            /\ hotspots[k + 1].severity_score # NaN
            /\ hotspots[k].severity_score >= hotspots[k + 1].severity_score

----------------------------------------------------------------------------
(* C11: the severity score *)

\* C11: the score of a cluster of at most 30 days is its report count (5
\* reports over 30 days score 5.0), and no call with a report count and a
\* span that are both at most those of this call scores higher
C11_SeverityScore ==
    pc = "returned" =>
        /\ args.span_days <= 30 => result = 10 * args.report_count
        /\ (args.report_count = 5 /\ args.span_days = 30) => result = 50
        /\ \A report_count \in 1..args.report_count, span_days \in 0..args.span_days :
              severity_score(report_count, span_days) <= result

\* the call of the example has returned
C11_Witness ==
    /\ pc = "returned"
    /\ args.report_count = 5
    /\ args.span_days = 30
    /\ result = 50

----------------------------------------------------------------------------
(* C12: which neighborhoods become gaps *)

\* the posts were read and gap_analysis has returned
GapsComputed == pc \in {"gaps", "categories", "done"} /\ ~NoPosts(df_reddit)

\* the neighborhoods of the request table
Names == {df[k].neighborhood : k \in DOMAIN df}

\* the official report count of a neighborhood
OfficialCount(name) == Cardinality({k \in DOMAIN df : df[k].neighborhood = name})

\* the official count is strictly below half of the mean over all
\* neighborhoods, which is Len(df) / Cardinality(Names)
BelowHalfMean(name) == 2 * Cardinality(Names) * OfficialCount(name) < Len(df)

----------------------------------------------------------------------------
(* C13: what the weak-signal count counts *)

\* the payload is the JSON text of an array of strings
IsHintArray(cell) ==
    /\ cell.type = "str"
    /\ json_loads(cell.value) # None
    /\ json_loads(cell.value)[1].type = "list"
    /\ \A k \in DOMAIN json_loads(cell.value)[1].value :
          json_loads(cell.value)[1].value[k].type = "str"

\* the location hints of a post: the strings of its array, none without one
LocationHints(post) ==
    IF IsHintArray(post.location_hints)
    THEN [k \in DOMAIN json_loads(post.location_hints.value)[1].value |->
             json_loads(post.location_hints.value)[1].value[k].value]
    ELSE <<>>

\* a occurs in b, compared case-insensitively
OccursIn(a, b) == Contains(Lower(a), Lower(b))

\* the (post, hint) pairs whose hint contains the name or lies within it
MatchingPairs(name) ==
    UNION { { <<p, h>> : h \in {m \in DOMAIN LocationHints(df_reddit.rows[p]) :
                 \/ OccursIn(name, LocationHints(df_reddit.rows[p])[m])
                 \/ OccursIn(LocationHints(df_reddit.rows[p])[m], name)} }
            : p \in DOMAIN df_reddit.rows }

\* C13: the weak-signal count of every neighborhood is the number of
\* (post, location hint) pairs that match it in one of the two directions
C13_SignalCountsMatchingPairs ==
    GapsComputed =>
        \A name \in Names :
            reddit_neighborhood_signals[name] = Cardinality(MatchingPairs(name))

----------------------------------------------------------------------------
(* C14: a run without posts *)

\* the social post dataset is absent or empty
DatasetAbsentOrEmpty == df_reddit = NoFile \/ df_reddit.rows = <<>>

\* C14: without posts no step raises, gap_analysis returns the empty list,
\* and the run ends with the neighborhoods and category stats of the table
\* and a gap count of 0
C14_NoPostsNoGaps ==
    DatasetAbsentOrEmpty =>
        /\ pc # "raised"
        /\ pc \in {"gaps", "categories", "done"} => gaps = <<>>
        /\ pc = "done" =>
              /\ neighborhoods = neighborhood_summary(df, now)
              /\ cat_stats = category_fix_rates(df, hotspots)
              /\ output.chronic_hotspots = Len(hotspots)
              /\ output.gap_neighborhoods = 0

\* a run without the posts file has ended, with neighborhoods summarized
C14_Witness ==
    /\ pc = "done"
    /\ df_reddit = NoFile
    /\ Cardinality(DOMAIN neighborhoods) >= 2
    /\ output.gap_neighborhoods = 0

----------------------------------------------------------------------------
(* C15: malformed location-hint payloads *)

IsWellFormedPost(post) == IsHintArray(post.location_hints)

\* C15: gap_analysis never raises, and the counts are those of the posts
\* whose payload is an array of strings: every other post counts as a post
\* without hints
C15_MalformedHintsAreEmpty ==
    /\ pc # "raised"
    /\ GapsComputed =>
          reddit_neighborhood_signals =
              Signals(report_counts(df), SelectSeq(df_reddit.rows, IsWellFormedPost))

----------------------------------------------------------------------------
(* C16: the gap ratio and the order of the gaps *)

\* the list is in non-increasing order of gap_score
GapsOrdered == \A k \in 1..(Len(gaps) - 1) : gaps[k].gap_score >= gaps[k + 1].gap_score

\* the weak-signal count and the official count behind a record
WeakCount(record) == reddit_neighborhood_signals[record.neighborhood]
Official(record) == Max(OfficialCount(record.neighborhood), 1)

\* C16 as stated: the gap ratio (here in hundredths) is exactly the
\* weak-signal count over max(official count, 1), and the list is ordered
C16_GapRatioExact ==
    GapsComputed =>
        /\ \A k \in DOMAIN gaps :
              gaps[k].gap_score * Official(gaps[k]) = 100 * WeakCount(gaps[k])
        /\ GapsOrdered

\* the distance of the score, in hundredths, from the exact ratio, times
\* the official count
ScoreError(record) ==
    LET e == record.gap_score * Official(record) - 100 * WeakCount(record)
    IN  IF e < 0 THEN -e ELSE e

\* C16, amended: the gap score is the weak-signal count over
\* max(official count, 1) rounded to two decimals (no hundredth is nearer
\* to the ratio), and the list is in non-increasing order of gap score
C16_GapScoreRoundedAndOrdered ==
    GapsComputed =>
        /\ \A k \in DOMAIN gaps :
              /\ gaps[k].reddit_signal = WeakCount(gaps[k])
              /\ gaps[k].balt_311_reports = OfficialCount(gaps[k].neighborhood)
              /\ 2 * ScoreError(gaps[k]) <= Official(gaps[k])
        /\ GapsOrdered

\* two gaps with different scores, one of them not an exact ratio
C16_Witness ==
    /\ GapsComputed
    /\ Len(gaps) = 2
    /\ gaps[1].gap_score > gaps[2].gap_score
    /\ ScoreError(gaps[2]) > 0

----------------------------------------------------------------------------
(* C17: the trend of a neighborhood *)

\* neighborhood_summary has returned
Summarized == pc \in {"neighborhoods", "gaps", "categories", "done"}

\* C17 as stated: with prior > 0 the trend (here in tenths of a percent) is
\* exactly (recent - prior) / prior * 100; it is 100.0 with no prior and
\* some recent requests, and null with neither
C17_TrendExact ==
    Summarized =>
        \A name \in DOMAIN neighborhoods :
            LET s == neighborhoods[name]
            IN  /\ s.prior_90_days > 0 =>
                      /\ s.trend_pct # None
                      /\ s.trend_pct[1] * s.prior_90_days
                            = 1000 * (s.recent_90_days - s.prior_90_days)
                /\ (s.prior_90_days = 0 /\ s.recent_90_days > 0) =>
                      s.trend_pct = Some(1000)
                /\ (s.prior_90_days = 0 /\ s.recent_90_days = 0) =>
                      s.trend_pct = None

\* the distance of the trend, in tenths, from the exact percentage, times prior
TrendError(s) ==
    LET e == s.trend_pct[1] * s.prior_90_days
               - 1000 * (s.recent_90_days - s.prior_90_days)
    IN  IF e < 0 THEN -e ELSE e

\* C17, amended: with prior > 0 the trend is (recent - prior) / prior * 100
\* rounded to one decimal (no tenth is nearer to it); it is 100.0 with no
\* prior and some recent requests, and null with neither
C17_TrendRounded ==
    Summarized =>
        \A name \in DOMAIN neighborhoods :
            LET s == neighborhoods[name]
            IN  /\ s.prior_90_days > 0 =>
                      /\ s.trend_pct # None
                      /\ 2 * TrendError(s) <= s.prior_90_days
                /\ (s.prior_90_days = 0 /\ s.recent_90_days > 0) =>
                      s.trend_pct = Some(1000)
                /\ (s.prior_90_days = 0 /\ s.recent_90_days = 0) =>
                      s.trend_pct = None

\* one neighborhood with a trend that is no exact tenth, one that grew from 0
C17_Witness ==
    /\ Summarized
    /\ \E name \in DOMAIN neighborhoods :
          /\ neighborhoods[name].prior_90_days > 0
          /\ TrendError(neighborhoods[name]) > 0
    /\ \E name \in DOMAIN neighborhoods :
          /\ neighborhoods[name].prior_90_days = 0
          /\ neighborhoods[name].trend_pct = Some(1000)

----------------------------------------------------------------------------
(* C18: the two 90-day windows *)

\* the requests of a neighborhood created from tick first to tick last
CreatedWithin(name, first, last) ==
    Cardinality({k \in DOMAIN df :
        /\ df[k].neighborhood = name
        /\ df[k].createddate # NaT
        /\ first <= df[k].createddate
        /\ df[k].createddate <= last})

\* C18: recent_90_days counts the requests created in the 90 days that end
\* at the run time, prior_90_days those of the 90 days before; every other
\* request, one dated after the run time included, is in neither count
C18_WindowsAreTrailing ==
    Summarized =>
        \A name \in DOMAIN neighborhoods :
            /\ neighborhoods[name].recent_90_days
                  = CreatedWithin(name, now - 90 * TicksPerDay, now)
            /\ neighborhoods[name].prior_90_days
                  = CreatedWithin(name, now - 180 * TicksPerDay,
                                  now - 90 * TicksPerDay - 1)

----------------------------------------------------------------------------
(* C19: the category of a request type *)

\* the rules in priority order: the keywords of a rule and its category
Rules ==
    << [keywords |-> {"pothole"},                  category |-> "Pothole"],
       [keywords |-> {"light", "streetlight"},     category |-> "Street Light"],
       [keywords |-> {"alley"},                    category |-> "Alley"],
       [keywords |-> {"sidewalk"},                 category |-> "Sidewalk"],
       [keywords |-> {"water", "main"},            category |-> "Water Main"],
       [keywords |-> {"cave", "sinkhole"},         category |-> "Cave-In / Sinkhole"],
       [keywords |-> {"storm", "drain", "catch"},  category |-> "Storm Drain"],
       [keywords |-> {"curb", "bridge", "street"}, category |-> "Street / Curb"] >>

\* the rules with a keyword that occurs in the type, case-insensitively
MatchingRules(srtype) ==
    {r \in DOMAIN Rules : \E word \in Rules[r].keywords : OccursIn(Chars(word), srtype)}

\* C19: the result is the category of the first rule with a keyword in the
\* type, and Other when there is none or the type is empty; a type with
\* both "street" and "light" in it is a Street Light
C19_FirstMatchingRule ==
    pc = "returned" =>
        LET matching == MatchingRules(args.srtype)
        IN  /\ (matching = {} \/ args.srtype = <<>>) => result = Chars("Other")
            /\ matching # {} =>
                  \E r \in matching :
                      /\ \A q \in matching : r <= q
                      /\ result = Chars(Rules[r].category)
            /\ (OccursIn(Chars("street"), args.srtype)
                   /\ OccursIn(Chars("light"), args.srtype)
                   /\ ~OccursIn(Chars("pothole"), args.srtype)) =>
                  result = Chars("Street Light")

\* a type that matches the street-light rule and the street/curb rule
C19_Witness ==
    /\ pc = "returned"
    /\ args.srtype = Chars("street LIGHT")
    /\ result = Chars("Street Light")

----------------------------------------------------------------------------
(* C20: the statistics of a category *)

\* category_fix_rates has returned
Categorized == pc \in {"categories", "done"}

\* the raw requests classified into a category
TotalRequests(cat) ==
    Cardinality({k \in DOMAIN df : categorize_type(df[k].srtype) = cat})

\* the flagged history entries of the hotspots whose dominant type is
\* classified into a category
RereportsOf(cat) ==
    Cardinality({e \in UNION {{<<k, m>> : m \in DOMAIN hotspots[k].history}
                                : k \in DOMAIN hotspots} :
        /\ categorize_type(hotspots[e[1]].primary_type) = cat
        /\ hotspots[e[1]].history[e[2]].is_rereport})

\* every category with a request is listed once, with the counts of C20
CategoryCounts ==
    /\ \A k \in DOMAIN df :
          \E i \in DOMAIN cat_stats : cat_stats[i][1] = categorize_type(df[k].srtype)
    /\ \A i, j \in DOMAIN cat_stats : cat_stats[i][1] = cat_stats[j][1] => i = j
    /\ \A i \in DOMAIN cat_stats :
          /\ cat_stats[i][2].total_requests = TotalRequests(cat_stats[i][1])
          /\ cat_stats[i][2].rereports = RereportsOf(cat_stats[i][1])

\* the categories are in non-increasing order of recurrence_pct
CategoriesOrdered ==
    \A i \in 1..(Len(cat_stats) - 1) :
        cat_stats[i][2].recurrence_pct >= cat_stats[i + 1][2].recurrence_pct

\* C20 as stated: the counts, recurrence_pct (here in tenths of a percent)
\* exactly rereports / total_requests * 100, and the order
C20_RecurrenceExact ==
    Categorized =>
        /\ CategoryCounts
        /\ \A i \in DOMAIN cat_stats :
              cat_stats[i][2].recurrence_pct * cat_stats[i][2].total_requests
                  = 1000 * cat_stats[i][2].rereports
        /\ CategoriesOrdered

\* the distance of recurrence_pct, in tenths, from the exact percentage,
\* times total_requests
RecurrenceError(s) ==
    LET e == s.recurrence_pct * s.total_requests - 1000 * s.rereports
    IN  IF e < 0 THEN -e ELSE e

\* C20, amended: the counts, recurrence_pct the percentage
\* rereports / total_requests * 100 rounded to one decimal (no tenth is
\* nearer to it), and the order
C20_RecurrenceRounded ==
    Categorized =>
        /\ CategoryCounts
        /\ \A i \in DOMAIN cat_stats :
              2 * RecurrenceError(cat_stats[i][2]) <= cat_stats[i][2].total_requests
        /\ CategoriesOrdered

\* two hotspots of different categories with re-reports, the categories in
\* descending order, one percentage no exact tenth
C20_Witness ==
    /\ Categorized
    /\ Len(hotspots) = 2
    /\ categorize_type(hotspots[1].primary_type)
          # categorize_type(hotspots[2].primary_type)
    /\ \E i, j \in DOMAIN cat_stats :
          /\ i < j
          /\ cat_stats[i][2].recurrence_pct > cat_stats[j][2].recurrence_pct
          /\ cat_stats[j][2].rereports > 0
          /\ RecurrenceError(cat_stats[j][2]) > 0

----------------------------------------------------------------------------
(* C21: tables without an optional column *)

\* the table has no column col
Lacks(col) == ~HasColumn(df, col)

\* identify_chronic_hotspots has returned
HotspotsBuilt == pc \in {"hotspots", "neighborhoods", "gaps", "categories", "done"}

\* every output that uses a missing column is the empty or default one
DefaultsForMissingColumns ==
    /\ (Summarized /\ Lacks("neighborhood")) => neighborhoods = <<>>
    /\ (Categorized /\ Lacks("srtype")) => cat_stats = <<>>
    /\ HotspotsBuilt =>
           \A h \in DOMAIN hotspots :
               /\ Lacks("srtype") => hotspots[h].primary_type = Chars("Unknown")
               /\ Lacks("neighborhood") => hotspots[h].neighborhood = Chars("Unknown")
               /\ Lacks("street") => hotspots[h].address_hint = None
               /\ Lacks("resolution_days") => hotspots[h].avg_resolution_days = None
               /\ Lacks("srstatus") => /\ hotspots[h].status_breakdown = <<>>
                                       /\ hotspots[h].possible_failed_fixes = 0

\* C21: when the table lacks an optional column (neighborhood, request type,
\* status, street, resolution duration), no component raises and every
\* component that uses the column gives its empty or default output.
C21_MissingColumnsDegrade ==
    /\ pc # "raised"
    /\ DefaultsForMissingColumns

----------------------------------------------------------------------------
(* C22: what the components leave alone *)

\* a step leaves the requests and the posts as they are, and the hotspots
\* once they are built
InputsKept ==
    /\ df' = df
    /\ df_reddit' = df_reddit
    /\ HotspotsBuilt => hotspots' = hotspots

\* C22: no component changes the input requests (rows, columns, values),
\* the posts or the hotspot list built before it, so at the end each of the
\* independent components, run again on what is there, gives the result
\* it gave in its place.
C22_ComponentsKeepTheirInputs ==
    /\ [][InputsKept]_vars
    /\ [](pc = "done" =>
            /\ cluster_id = cluster_locations(df)
            /\ neighborhoods = neighborhood_summary(df, now)
            /\ cat_stats = category_fix_rates(df, hotspots)
            /\ ~NoPosts(df_reddit) =>
                   gaps \in SortByGapScore(
                       GapRecords(report_counts(df),
                                  Signals(report_counts(df), df_reddit.rows))))

\* a finished run with posts, hotspots, summaries and category statistics
C22_Witness ==
    /\ pc = "done"
    /\ ~NoPosts(df_reddit)
    /\ hotspots # <<>>
    /\ neighborhoods # <<>>
    /\ cat_stats # <<>>

----------------------------------------------------------------------------
(* C23: the flag of a request and the closure it is judged against *)

\* the closed rows with a status-change timestamp walked before row k
RecordedBefore(walk, k) == {j \in 1..(k - 1) : TracksClosure(walk[j])}

\* C23: the flag of a request is decided before its own closure is recorded:
\* a request with no closure recorded before it is never flagged, whatever
\* its own status-change timestamp, and a request after recorded closures
\* is flagged exactly when the walk's window test holds against the last
\* one recorded.
C23_JudgedAgainstLastRecordedClosure ==
    pc = "hotspots" =>
        \A h \in DOMAIN hotspots :
            \A k \in DOMAIN hotspots[h].history :
                LET walk     == sorted_reports[h]
                    recorded == RecordedBefore(walk, k)
                    last     == CHOOSE j \in recorded : \A m \in recorded : m <= j
                IN  hotspots[h].history[k].is_rereport <=>
                        /\ recorded # {}
                        /\ IsRereport(walk[k].createddate, walk[last].statusdate)

\* a closed request that passes the window test against its own
\* status-change timestamp and is not flagged, and a later request that is
\* flagged though it fails the test against an earlier recorded closure
C23_Witness ==
    /\ pc = "hotspots"
    /\ \E h \in DOMAIN hotspots :
         LET walk == sorted_reports[h]
         IN  /\ \E k \in DOMAIN walk :
                    /\ TracksClosure(walk[k])
                    /\ IsRereport(walk[k].createddate, walk[k].statusdate)
                    /\ ~hotspots[h].history[k].is_rereport
             /\ \E k \in DOMAIN walk :
                    /\ hotspots[h].history[k].is_rereport
                    /\ \E j \in RecordedBefore(walk, k) :
                           ~IsRereport(walk[k].createddate, walk[j].statusdate)

----------------------------------------------------------------------------
(* C24: the tracked closure over one walk *)

\* the latest status-change timestamp among the closed requests walked
\* before row k, NaT when there is none
LatestClosureBefore(walk, k) ==
    LET dates == {walk[j].statusdate : j \in RecordedBefore(walk, k)}
    IN  IF dates = {} THEN NaT ELSE CHOOSE t \in dates : \A u \in dates : u <= t

\* C24: during a cluster's walk the tracked closure timestamp never moves
\* backwards: at every step it is the latest status-change timestamp among
\* the closed requests already walked.
C24_TrackedClosureIsLatest ==
    pc = "hotspots" =>
        \A h \in DOMAIN hotspots :
            \A k \in 1..(Len(sorted_reports[h]) + 1) :
                /\ LastClosureDate(sorted_reports[h], k)
                       = LatestClosureBefore(sorted_reports[h], k)
                /\ k > 1 => LastClosureDate(sorted_reports[h], k)
                                >= LastClosureDate(sorted_reports[h], k - 1)

----------------------------------------------------------------------------
(* C25: the history of a hotspot *)

\* the date a history entry shows for a creation timestamp
DateOf(created) == IF created = NaT THEN NaT ELSE created \div TicksPerDay

\* the entries of a history that show the date and status of row i
EntriesOf(history, i) ==
    {k \in DOMAIN history :
        /\ history[k].date = DateOf(df[i].createddate)
        /\ history[k].status = df[i].srstatus}

\* C25: a hotspot's history has exactly one entry per member request of its
\* cluster (its length is report_count), in non-decreasing order of the
\* creation date, the entries without a date last.
C25_HistoryIsTheClusterInOrder ==
    pc = "hotspots" =>
        \A h \in DOMAIN hotspots :
            LET history == hotspots[h].history
                members == Members(hotspots[h].cluster_id)
            IN  /\ Len(history) = hotspots[h].report_count
                /\ Len(history) = Cardinality(members)
                /\ \A i \in members :
                       Cardinality(EntriesOf(history, i))
                           = Cardinality({j \in members :
                                 /\ DateOf(df[j].createddate) = DateOf(df[i].createddate)
                                 /\ df[j].srstatus = df[i].srstatus})
                /\ \A k, m \in DOMAIN history :
                       k < m => \/ history[m].date = NaT
                                \/ /\ history[k].date # NaT
                                   /\ history[k].date <= history[m].date

\* a hotspot whose table has an undated request ahead of a dated one and a
\* later request ahead of an earlier one
C25_Witness ==
    /\ pc = "hotspots"
    /\ \E h \in DOMAIN hotspots :
         \E i, j, m \in Members(hotspots[h].cluster_id) :
             /\ i < j
             /\ j < m
             /\ df[i].createddate = NaT
             /\ df[j].createddate # NaT
             /\ df[m].createddate # NaT
             /\ df[j].createddate > df[m].createddate

----------------------------------------------------------------------------
(* C26: what a neighborhood's total and median count *)

\* the requests with a neighborhood name that is neither null nor empty
NamedRequests ==
    IF Lacks("neighborhood") THEN {}
    ELSE {k \in DOMAIN df : df[k].neighborhood \notin {<<>>, NaNStr}}

\* the requests of a neighborhood that are closed and have a resolution
\* duration, in table order
Contributors(name) ==
    IF Lacks("srstatus") \/ Lacks("resolution_days") THEN <<>>
    ELSE SetToSeq({k \in NamedRequests :
                      /\ df[k].neighborhood = name
                      /\ df[k].srstatus = Str_Closed
                      /\ df[k].resolution_days # NaN})

\* the sum of total_reports over the neighborhoods of names
RECURSIVE SumOfTotals(_)
SumOfTotals(names) ==
    IF names = {} THEN 0
    ELSE LET name == CHOOSE x \in names : TRUE
         IN  neighborhoods[name].total_reports + SumOfTotals(names \ {name})

\* C26: every request with a non-null, non-empty neighborhood name counts
\* in the total of exactly one neighborhood, whatever its status-change
\* date and resolution duration (the totals add up to the number of such
\* requests, and null and empty names have no summary), and the median
\* resolution duration of a neighborhood is that of its closed requests
\* with a resolution duration only.
C26_TotalsCountAllMedianOnlyClosed ==
    Summarized =>
        /\ DOMAIN neighborhoods = {df[k].neighborhood : k \in NamedRequests}
        /\ \A name \in DOMAIN neighborhoods :
               neighborhoods[name].total_reports
                   = Cardinality({k \in NamedRequests : df[k].neighborhood = name})
        /\ SumOfTotals(DOMAIN neighborhoods) = Cardinality(NamedRequests)
        /\ \A name \in DOMAIN neighborhoods :
               LET rows == Contributors(name)
                   avg  == neighborhoods[name].avg_resolution_days
               IN  IF rows = <<>> THEN avg \in {None, Some(NaN)}
                   ELSE avg = Some(Median([k \in DOMAIN rows |->
                                              df[rows[k]].resolution_days]))

\* a summary of a table with an unnamed request, for a neighborhood with a
\* closed request without a resolution duration, an open request with one,
\* and a closed request with one
C26_Witness ==
    /\ Summarized
    /\ NamedRequests # DOMAIN df
    /\ \E name \in DOMAIN neighborhoods :
         /\ Contributors(name) # <<>>
         /\ \E i, j \in NamedRequests :
                /\ df[i].neighborhood = name
                /\ df[i].srstatus = Str_Closed
                /\ df[i].statusdate = NaT
                /\ df[i].resolution_days = NaN
                /\ df[j].neighborhood = name
                /\ df[j].srstatus # Str_Closed
                /\ df[j].resolution_days # NaN

----------------------------------------------------------------------------
(* C27: the median resolution duration of a hotspot *)

\* the members of cluster c that are closed and have a resolution duration,
\* in table order
ClosedWithDuration(c) ==
    IF Lacks("srstatus") \/ Lacks("resolution_days") THEN <<>>
    ELSE SetToSeq({k \in Members(c) :
                      /\ df[k].srstatus = Str_Closed
                      /\ df[k].resolution_days # NaN})

\* C27: a hotspot's avg_resolution_days is null if and only if its cluster
\* has no closed member with a resolution duration; otherwise it is the
\* median of those members' durations, also when that median is 0 days.
C27_MedianNullIffNoClosedDuration ==
    HotspotsBuilt =>
        \A h \in DOMAIN hotspots :
            LET rows == ClosedWithDuration(hotspots[h].cluster_id)
                avg  == hotspots[h].avg_resolution_days
            IN  /\ avg = None <=> rows = <<>>
                /\ rows # <<>> =>
                       avg = Some(Median([k \in DOMAIN rows |->
                                             df[rows[k]].resolution_days]))

----------------------------------------------------------------------------
(* C28: the bounds of a category's counts *)

\* C28: for every category, requests_at_chronic_locations is at most
\* total_requests and rereports at most requests_at_chronic_locations, so
\* neither percentage (here in tenths of a percent) exceeds 100.
C28_CategoryCountsBounded ==
    Categorized =>
        \A i \in DOMAIN cat_stats :
            LET stats == cat_stats[i][2]
            IN  /\ stats.requests_at_chronic_locations <= stats.total_requests
                /\ stats.rereports <= stats.requests_at_chronic_locations
                /\ stats.recurrence_pct <= 1000
                /\ stats.chronic_location_pct <= 1000

----------------------------------------------------------------------------
(* C29: the two categorize_type functions *)

\* C29: the dashboard generator's categorize_type and the analysis engine's
\* return the same category for every request type, the empty one and the
\* ones with several keywords included.
C29_SameCategoryOnDashboard ==
    pc = "returned" => result.dashboard = result.analysis

\* a type in which the keywords of two rules occur, in upper case too, and
\* that both functions put in a category other than 'Other'
C29_Witness ==
    /\ pc = "returned"
    /\ Cardinality(MatchingRules(args.srtype)) >= 2
    /\ args.srtype # Lower(args.srtype)
    /\ result.dashboard # Chars("Other")

----------------------------------------------------------------------------
(* C30: the pagination loop of fetch_year *)

\* a reply after which the loop ends and the function returns
EndsLoop(data) ==
    \/ data.kind \in {"RequestException", "ValueError", "error"}
    \/ data.kind = "page" /\ data.features = <<>>
    \/ data.kind = "page" /\ data.exceededTransferLimit # Some(TRUE)

\* the features of the pages among the first k requests, in order
RECURSIVE FeaturesReceived(_, _)
FeaturesReceived(requests, k) ==
    IF k = 0 THEN <<>>
    ELSE FeaturesReceived(requests, k - 1)
         \o (IF requests[k].data.kind = "page"
             THEN requests[k].data.features ELSE <<>>)

PaginationInOrder ==
    LET requests == result.requests
    IN  /\ \A i \in DOMAIN requests :
              /\ requests[i].resultOffset = (i - 1) * PAGE_SIZE
              /\ requests[i].resultRecordCount = PAGE_SIZE
              /\ EndsLoop(requests[i].data) => i = Len(requests) /\ pc = "returned"
        /\ pc = "returned" =>
              /\ requests # <<>>
              /\ EndsLoop(requests[Len(requests)].data)
              /\ result.all_features = FeaturesReceived(requests, Len(requests))

\* C30: the requests of fetch_year use the offsets 0, PAGE_SIZE,
\* 2*PAGE_SIZE, ... in this order; the loop ends with the first request that
\* fails, gives an error object, gives no features or does not report
\* exceededTransferLimit, and the function then returns the features of the
\* pages received, in order; on a layer of finitely many records the loop
\* comes to an end.
C30_PaginationInOrderAndEnds ==
    /\ []PaginationInOrder
    /\ <>(pc \in {"returned", "raised"})

\* two full pages were received and the third request, at offset
\* 2*PAGE_SIZE, found no features
C30_Witness ==
    /\ pc = "returned"
    /\ Len(result.requests) = 3
    /\ result.requests[3].data.kind = "page"
    /\ result.requests[3].data.features = <<>>
    /\ Len(result.all_features) = 2 * PAGE_SIZE
====
